---- MODULE Spec2Model ----
(***************************************************************************)
(* A model of the level tools of escape-vim:                               *)
(*   tools/level_builder.py   generate_maze, generate_patrol_route,        *)
(*                            get_spawn_pos, validate_route,               *)
(*                            generate_spies_vim, format_vim_value         *)
(*   tools/validate_levels.py parse_vim_dict, measure_maze, get_char_at,   *)
(*                            validate_level, validate_spy                 *)
(*                                                                         *)
(* Positions are <<row, col>>, 1-indexed as in the YAML and in meta.vim.   *)
(* A grid is a sequence of rows, a row a sequence of one-character         *)
(* strings.  Text is a sequence of one-character strings.                  *)
(***************************************************************************)
EXTENDS Integers, Sequences, FiniteSets, TLC

VARIABLES
    config,        \* generate_maze: the level definition given to it
    maze,          \* the grid generate_maze returned / the walkers read
    m_pc,          \* generate_maze: "input" before the call, "done" after
    spies_config,  \* generate_spies_vim: the list of spy definitions
    k,             \* generate_spies_vim: index (1-based) of the spy in hand
    all_errors,    \* generate_spies_vim: all_errors
    spies_data,    \* generate_spies_vim: spies_data
    g_pc,          \* generate_spies_vim: position in the loop body
    spies_vim,     \* generate_spies_vim: the lines it returns
    spy_id,        \* the id the walkers label their violations with
    spawn,         \* the spawn the walkers are given
    route,         \* the route the walkers are given
    b_pos,         \* validate_route: pos (0-indexed)
    b_i,           \* validate_route: index (1-based) of the vector walked
    b_errors,      \* validate_route: errors
    b_pc,          \* validate_route: position in the function
    b_seen,        \* history: the cells (1-indexed) validate_route moved pos onto
    v_pos,         \* validate_spy: pos (1-indexed)
    v_i,           \* validate_spy: index (1-based) of the vector walked
    v_errors,      \* validate_spy: errors
    v_pc,          \* validate_spy: position in the function
    v_seen,        \* history: the cells (1-indexed) validate_spy moved pos onto
    value,         \* format_vim_value: the value to serialize
    text,          \* the text format_vim_value returned
    parsed,        \* the value parse_vim_dict returned
    l_pc,          \* serializer/parser: "input", "formatted", "parsed" ("idle": not run)
    level_path,    \* validate_level: the level directory (meta.vim and maze.txt)
    meta,          \* validate_level: meta
    errors,        \* validate_level: errors
    lv_k,          \* validate_level: index (1-based) of the spy of meta['spies'] in hand
    lv_pc          \* validate_level: position in the function

vars == <<config, maze, m_pc, spies_config, k, all_errors, spies_data, g_pc, spies_vim,
          spy_id, spawn, route, b_pos, b_i, b_errors, b_pc, b_seen,
          v_pos, v_i, v_errors, v_pc, v_seen, value, text, parsed, l_pc,
          level_path, meta, errors, lv_k, lv_pc>>

mazeVars == <<config, maze, m_pc>>
spyVars  == <<spies_config, k, all_errors, spies_data, g_pc, spies_vim>>
walkIn   == <<spy_id, spawn, route>>
bVars    == <<b_pos, b_i, b_errors, b_pc, b_seen>>
vVars    == <<v_pos, v_i, v_errors, v_pc, v_seen>>
litVars  == <<value, text, parsed, l_pc>>
levelVars == <<level_path, meta, errors, lv_k, lv_pc>>

(***************************************************************************)
(* Markers.  WALL_CHAR is U+2588 in the source; only its identity matters, *)
(* so the model writes it "#".  The exit cell is stamped with 'Q'.         *)
(***************************************************************************)
WALL_CHAR  == "#"
FLOOR_CHAR == " "
EXIT_MARK  == "Q"

\* an absent optional field (config.get('exit') is None, 'spawn' not in spy)
Missing == <<>>

(***************************************************************************)
(* Bounds of the model.                                                    *)
(***************************************************************************)
MaxRows == 3
MaxCols == 3
MaxExt  == 2

(***************************************************************************)
(* generate_maze                                                           *)
(***************************************************************************)
\* the guard "0 <= r < rows and 0 <= c < cols" of every painting loop
InGrid0_NoLower(r, c, rows, cols) == r < rows /\ c < cols
InGrid0(r, c, rows, cols) == 0 <= r /\ r < rows /\ 0 <= c /\ c < cols

\* Python list indexing: lst[i] with -n <= i < n is lst[i + n] for i < 0,
\* anything else raises IndexError
PyIndexOk(i, n) == -n <= i /\ i < n
PyIndex(i, n) == IF i < 0 THEN i + n ELSE i

\* the cells of `cells` that pass the guard
Guarded(cells, rows, cols) == {p \in cells : InGrid0(p[1], p[2], rows, cols)}

\* "grid[r][c] = ch" raises IndexError for some cell of `cells`
SetRaises(cells, rows, cols) ==
    \E p \in cells : ~PyIndexOk(p[1], rows) \/ ~PyIndexOk(p[2], cols)

\* "grid[r][c] = ch" for every cell of `cells`
SetCells(grid, cells, ch, rows, cols) ==
    LET hit == {<<PyIndex(p[1], rows), PyIndex(p[2], cols)>> : p \in cells}
    IN [r \in DOMAIN grid |->
           [c \in DOMAIN grid[r] |-> IF <<r, c>> \in hit THEN ch ELSE grid[r][c]]]

\* "if 0 <= r < rows and 0 <= c < cols: grid[r][c] = ch" for every cell of `cells`
Paint(grid, cells, ch, rows, cols) ==
    SetCells(grid, Guarded(cells, rows, cols), ch, rows, cols)

\* "grid = [[FLOOR_CHAR for _ in range(cols)] for _ in range(rows)]"
AllFloor_Wide(rows, cols) == [r \in 0..(rows - 1) |-> [c \in 0..cols |-> FLOOR_CHAR]]
AllFloor(rows, cols) == [r \in 0..(rows - 1) |-> [c \in 0..(cols - 1) |-> FLOOR_CHAR]]

\* the two border loops: rows 0 and rows-1, columns 0 and cols-1
BorderCells0_NoBottom(rows, cols) ==
    {<<0, c>> : c \in 0..(cols - 1)}
        \cup {<<r, 0>> : r \in 0..(rows - 1)}
        \cup {<<r, cols - 1>> : r \in 0..(rows - 1)}
BorderCells0(rows, cols) ==
    {<<0, c>> : c \in 0..(cols - 1)}
        \cup {<<rows - 1, c>> : c \in 0..(cols - 1)}
        \cup {<<r, 0>> : r \in 0..(rows - 1)}
        \cup {<<r, cols - 1>> : r \in 0..(rows - 1)}

\* the 0-indexed cells the loops of one wall spec visit (before the guard)
WallLoopCells0(wall) ==
    IF wall.type = "rect" THEN
        LET top == wall.rect[1] - 1
            left == wall.rect[2] - 1
            height == wall.rect[3]
            width == wall.rect[4]
        IN {<<r, c>> : r \in top..(top + height - 1), c \in left..(left + width - 1)}
    ELSE IF wall.type = "hline" THEN
        LET row == wall.line[1] - 1
            col_start == wall.line[2] - 1
            col_end == wall.line[3] - 1
        IN {<<row, c>> : c \in col_start..col_end}
    ELSE IF wall.type = "vline" THEN
        LET col == wall.line[1] - 1
            row_start == wall.line[2] - 1
            row_end == wall.line[3] - 1
        IN {<<r, col>> : r \in row_start..row_end}
    ELSE {}

\* the 0-indexed cells the loops of one opening spec visit (before the guard)
OpeningLoopCells0(opening) ==
    IF opening.type = "hline" THEN
        LET row == opening.line[1] - 1
            col_start == opening.line[2] - 1
            col_end == opening.line[3] - 1
        IN {<<row, c>> : c \in col_start..col_end}
    ELSE IF opening.type = "vline" THEN
        LET col == opening.line[1] - 1
            row_start == opening.line[2] - 1
            row_end == opening.line[3] - 1
        IN {<<r, col>> : r \in row_start..row_end}
    ELSE IF opening.type = "point" THEN
        {<<opening.pos[1] - 1, opening.pos[2] - 1>>}
    ELSE {}

RECURSIVE DrawWalls(_, _, _, _)
\* "for wall in config.get('walls', [])", in list order
DrawWalls(grid, walls, rows, cols) ==
    IF walls = <<>> THEN grid
    ELSE DrawWalls(Paint(grid, WallLoopCells0(Head(walls)), WALL_CHAR, rows, cols),
                   Tail(walls), rows, cols)

RECURSIVE CarveOpenings(_, _, _, _)
\* "for opening in config.get('openings', [])", in list order
CarveOpenings(grid, openings, rows, cols) ==
    IF openings = <<>> THEN grid
    ELSE CarveOpenings(Paint(grid, OpeningLoopCells0(Head(openings)), FLOOR_CHAR, rows, cols),
                       Tail(openings), rows, cols)

\* the cell of "exit_pos = config.get('exit'); if exit_pos: ..." (none when absent)
ExitCells0(exit_pos) ==
    IF exit_pos = Missing THEN {} ELSE {<<exit_pos[1] - 1, exit_pos[2] - 1>>}

\* "return [''.join(row) for row in grid]": the rows as sequences
JoinRows(grid) ==
    [r \in 1..Cardinality(DOMAIN grid) |->
        [c \in 1..Cardinality(DOMAIN grid[r - 1]) |-> grid[r - 1][c - 1]]]

RECURSIVE DrawAndCarve(_, _, _, _, _)
\* one pass over both lists: wall n is drawn, then opening n is carved
DrawAndCarve(grid, walls, openings, rows, cols) ==
    IF walls = <<>> THEN CarveOpenings(grid, openings, rows, cols)
    ELSE IF openings = <<>> THEN DrawWalls(grid, walls, rows, cols)
    ELSE DrawAndCarve(
             Paint(Paint(grid, WallLoopCells0(Head(walls)), WALL_CHAR, rows, cols),
                   OpeningLoopCells0(Head(openings)), FLOOR_CHAR, rows, cols),
             Tail(walls), Tail(openings), rows, cols)

\* generate_maze with the walls and the openings applied in one pass
generate_maze_OnePass(cfg) ==
    LET rows == cfg.dimensions[1]
        cols == cfg.dimensions[2]
        g0 == AllFloor(rows, cols)
        g1 == SetCells(g0, BorderCells0(rows, cols), WALL_CHAR, rows, cols)
        g3 == DrawAndCarve(g1, cfg.walls, cfg.openings, rows, cols)
        g4 == Paint(g3, ExitCells0(cfg.exit), EXIT_MARK, rows, cols)
    IN JoinRows(g4)

\* generate_maze with the openings carved before the walls are drawn
generate_maze_OpeningsFirst(cfg) ==
    LET rows == cfg.dimensions[1]
        cols == cfg.dimensions[2]
        g0 == AllFloor(rows, cols)
        g1 == SetCells(g0, BorderCells0(rows, cols), WALL_CHAR, rows, cols)
        g2 == CarveOpenings(g1, cfg.openings, rows, cols)
        g3 == DrawWalls(g2, cfg.walls, rows, cols)
        g4 == Paint(g3, ExitCells0(cfg.exit), EXIT_MARK, rows, cols)
    IN JoinRows(g4)

\* the grid generate_maze returns
generate_maze(cfg) ==
    LET rows == cfg.dimensions[1]
        cols == cfg.dimensions[2]
        g0 == AllFloor(rows, cols)
        g1 == SetCells(g0, BorderCells0(rows, cols), WALL_CHAR, rows, cols)
        g2 == DrawWalls(g1, cfg.walls, rows, cols)
        g3 == CarveOpenings(g2, cfg.openings, rows, cols)
        g4 == Paint(g3, ExitCells0(cfg.exit), EXIT_MARK, rows, cols)
    IN JoinRows(g4)

\* generate_maze ends in an IndexError: some assignment it reaches indexes outside the grid
generate_maze_raises(cfg) ==
    LET rows == cfg.dimensions[1]
        cols == cfg.dimensions[2]
    IN \/ SetRaises(BorderCells0(rows, cols), rows, cols)
       \/ \E n \in 1..Len(cfg.walls) :
              SetRaises(Guarded(WallLoopCells0(cfg.walls[n]), rows, cols), rows, cols)
       \/ \E n \in 1..Len(cfg.openings) :
              SetRaises(Guarded(OpeningLoopCells0(cfg.openings[n]), rows, cols), rows, cols)
       \/ SetRaises(Guarded(ExitCells0(cfg.exit), rows, cols), rows, cols)

(***************************************************************************)
(* The level definitions generate_maze is run on.                          *)
(***************************************************************************)
\* coordinates a spec may name: below the grid, inside it, its last line
Coord  == {0, 2, MaxRows, MaxCols}
Extent == 1..MaxExt

WallSpecs ==
    {[type |-> "rect", rect |-> <<t, l, h, w>>] :
        t \in Coord, l \in Coord, h \in Extent, w \in Extent}
    \cup {[type |-> ty, line |-> <<a, b, c>>] :
        ty \in {"hline", "vline"}, a \in Coord, b \in Coord, c \in Coord}

OpeningSpecs ==
    {[type |-> ty, line |-> <<a, b, c>>] :
        ty \in {"hline", "vline"}, a \in Coord, b \in Coord, c \in Coord}
    \cup {[type |-> "point", pos |-> <<r, c>>] : r \in Coord, c \in Coord}

ExitChoices == {Missing, <<0, 2>>, <<2, 2>>, <<MaxRows, 2>>}

Configs ==
    [dimensions : {1, MaxRows} \X {1, MaxCols},
     walls      : {<<>>} \cup {<<w>> : w \in WallSpecs},
     openings   : {<<>>} \cup {<<o>> : o \in OpeningSpecs},
     exit       : ExitChoices]

\* the values the variables of the other tools hold while one tool runs
IdleSpies ==
    /\ spies_config = <<>> /\ k = 0 /\ all_errors = <<>> /\ spies_data = <<>>
    /\ g_pc = "idle" /\ spies_vim = <<>>
IdleWalkIn == spy_id = "" /\ spawn = Missing /\ route = <<>>
IdleB == b_pos = Missing /\ b_i = 0 /\ b_errors = <<>> /\ b_pc = "idle" /\ b_seen = {}
IdleV == v_pos = Missing /\ v_i = 0 /\ v_errors = <<>> /\ v_pc = "idle" /\ v_seen = {}
IdleLit == value = [t |-> "null"] /\ text = <<>> /\ parsed = [t |-> "null"] /\ l_pc = "idle"
IdleLevel ==
    /\ level_path = [meta_vim |-> [state |-> "absent"], maze_txt |-> [state |-> "absent"]]
    /\ meta = Missing /\ errors = <<>> /\ lv_k = 0 /\ lv_pc = "idle"
IdleMaze == config = [dimensions |-> <<1, 1>>, walls |-> <<>>, openings |-> <<>>, exit |-> Missing]
            /\ m_pc = "idle"

(***************************************************************************)
(* SpecMaze: generate_maze on every level definition of Configs.           *)
(***************************************************************************)
InitMaze ==
    /\ config \in Configs
    /\ maze = <<>>
    /\ m_pc = "input"
    /\ IdleSpies /\ IdleWalkIn /\ IdleB /\ IdleV /\ IdleLit /\ IdleLevel

\* maze = generate_maze(config)
GenerateMaze ==
    /\ m_pc = "input"
    /\ IF generate_maze_raises(config)
       THEN maze' = <<>> /\ m_pc' = "raised"
       ELSE maze' = generate_maze(config) /\ m_pc' = "done"
    /\ UNCHANGED <<config, spyVars, walkIn, bVars, vVars, litVars, levelVars>>

NextMaze == GenerateMaze

SpecMaze == InitMaze /\ [][NextMaze]_vars

(***************************************************************************)
(* SpecMazeOrder: generate_maze on level definitions with up to MaxSpecs   *)
(* wall specs and as many opening specs, which overlap one another, the    *)
(* border and the exit, on the MaxRows x MaxCols grid.                     *)
(***************************************************************************)
MaxSpecs == 2

OrderWalls ==
    {[type |-> "rect", rect |-> <<2, 2, 1, 1>>],
     [type |-> "rect", rect |-> <<0, 0, 2, 2>>],
     [type |-> "hline", line |-> <<2, 0, MaxCols + 1>>],
     [type |-> "vline", line |-> <<2, 2, MaxRows>>]}

OrderOpenings ==
    {[type |-> "point", pos |-> <<2, 2>>],
     [type |-> "point", pos |-> <<MaxRows, 2>>],
     [type |-> "hline", line |-> <<2, 1, MaxCols>>],
     [type |-> "vline", line |-> <<2, 0, 2>>]}

OrderConfigs ==
    [dimensions : {<<MaxRows, MaxCols>>},
     walls      : UNION {[1..n -> OrderWalls] : n \in 0..MaxSpecs},
     openings   : UNION {[1..n -> OrderOpenings] : n \in 0..MaxSpecs},
     exit       : {Missing, <<2, 2>>}]

InitMazeOrder ==
    /\ config \in OrderConfigs
    /\ maze = <<>>
    /\ m_pc = "input"
    /\ IdleSpies /\ IdleWalkIn /\ IdleB /\ IdleV /\ IdleLit /\ IdleLevel

SpecMazeOrder == InitMazeOrder /\ [][NextMaze]_vars

(***************************************************************************)
(* generate_patrol_route and get_spawn_pos                                 *)
(***************************************************************************)
\* spy_config.get('direction', 'cw') when the key is absent
NoDirection == "absent"

\* generate_patrol_route with the waypoints never reversed
Reversed_Identity(seq) == seq
\* the loop direction decided by columns first
LoopDir_ColumnsFirst(current, next_wp) ==
    IF next_wp[2] < current[2] THEN "left"
    ELSE IF next_wp[2] > current[2] THEN "right"
    ELSE IF next_wp[1] < current[1] THEN "up"
    ELSE "down"
\* get_spawn_pos with the pattern looked at before the spawn field
get_spawn_pos_PatternFirst(spy_config) ==
    IF spy_config.pattern \in {"horizontal", "vertical"} THEN spy_config.endpoints[1]
    ELSE IF spy_config.pattern = "loop" /\ spy_config.waypoints # <<>>
    THEN spy_config.waypoints[1]
    ELSE spy_config.spawn
\* the reversed list: list(reversed(waypoints))
Reversed(seq) == [n \in 1..Len(seq) |-> seq[Len(seq) + 1 - n]]

\* a route vector {'end': ..., 'dir': ...}
Vec(end, dir) == [end |-> end, dir |-> dir]

\* the direction chosen between two consecutive loop waypoints (lines 261-268)
LoopDir(current, next_wp) ==
    IF next_wp[1] < current[1] THEN "up"
    ELSE IF next_wp[1] > current[1] THEN "down"
    ELSE IF next_wp[2] < current[2] THEN "left"
    ELSE "right"

\* the horizontal/vertical branches with the first leg always increasing
BackAndForth_IncreasingFirst(start, end, axis, inc, dec) ==
    IF end[axis] > start[axis]
    THEN <<Vec(end, inc), Vec(start, dec)>>
    ELSE <<Vec(start, inc), Vec(end, dec)>>
\* the horizontal/vertical branches with a tie taken as increasing
BackAndForth_TieIncreasing(start, end, axis, inc, dec) ==
    IF end[axis] >= start[axis]
    THEN <<Vec(end, inc), Vec(start, dec)>>
    ELSE <<Vec(end, dec), Vec(start, inc)>>
\* the horizontal branch (axis 2, right/left) and the vertical one (axis 1, down/up)
BackAndForth(start, end, axis, inc, dec) ==
    IF end[axis] > start[axis]
    THEN <<Vec(end, inc), Vec(start, dec)>>
    ELSE <<Vec(end, dec), Vec(start, inc)>>

\* the loop branch: one vector per waypoint, to the next one, wrapping
LoopRoute(waypoints) ==
    [n \in 1..Len(waypoints) |->
        LET current == waypoints[n]
            next_wp == waypoints[(n % Len(waypoints)) + 1]
        IN Vec(next_wp, LoopDir(current, next_wp))]

KnownPatterns == {"horizontal", "vertical", "loop"}

\* generate_patrol_route raises ValueError("Unknown pattern")
generate_patrol_route_raises(spy_config) == spy_config.pattern \notin KnownPatterns

generate_patrol_route(spy_config) ==
    IF spy_config.pattern = "horizontal" THEN
        BackAndForth(spy_config.endpoints[1], spy_config.endpoints[2], 2, "right", "left")
    ELSE IF spy_config.pattern = "vertical" THEN
        BackAndForth(spy_config.endpoints[1], spy_config.endpoints[2], 1, "down", "up")
    ELSE
        LET direction == IF spy_config.direction = NoDirection THEN "cw"
                         ELSE spy_config.direction
            waypoints == IF direction = "ccw" THEN Reversed(spy_config.waypoints)
                         ELSE spy_config.waypoints
        IN LoopRoute(waypoints)

\* get_spawn_pos raises: the ValueError of line 289, or the IndexError of
\* spy_config['waypoints'][0] on an empty waypoint list
get_spawn_pos_raises(spy_config) ==
    /\ spy_config.spawn = Missing
    /\ \/ spy_config.pattern \notin KnownPatterns
       \/ spy_config.pattern = "loop" /\ spy_config.waypoints = <<>>

get_spawn_pos(spy_config) ==
    IF spy_config.spawn # Missing THEN spy_config.spawn
    ELSE IF spy_config.pattern \in {"horizontal", "vertical"} THEN spy_config.endpoints[1]
    ELSE spy_config.waypoints[1]

\* the mutation of Moved in which a step leaves pos where it is
Moved_Still(pos, direction) == pos

(***************************************************************************)
(* The step both walkers take: one cell in the vector's direction.  An     *)
(* unknown direction moves nothing in validate_route (no else branch).     *)
(***************************************************************************)
Moved(pos, direction) ==
    IF direction = "up" THEN <<pos[1] - 1, pos[2]>>
    ELSE IF direction = "down" THEN <<pos[1] + 1, pos[2]>>
    ELSE IF direction = "left" THEN <<pos[1], pos[2] - 1>>
    ELSE IF direction = "right" THEN <<pos[1], pos[2] + 1>>
    ELSE pos

Directions == {"up", "down", "left", "right"}

\* one violation: the spy it belongs to, the message, the position the message names
Err(id, kind, at) == [id |-> id, kind |-> kind, at |-> at]

(***************************************************************************)
(* validate_route (level_builder.py), one action per step of the function. *)
(* b_pos is 0-indexed as in the code.                                      *)
(***************************************************************************)
\* rows = len(maze); cols = len(maze[0]) if maze else 0
b_rows == Len(maze)
b_cols == IF maze = <<>> THEN 0 ELSE Len(maze[1])

\* maze[pos[0]][pos[1]] for an in-bounds 0-indexed pos
b_char(pos) == maze[pos[1] + 1][pos[2] + 1]

\* the spawn check without its wall branch
b_spawn_errors_BoundsOnly(pos) ==
    IF ~InGrid0(pos[1], pos[2], b_rows, b_cols)
    THEN <<Err(spy_id, "Spawn out of bounds", spawn)>>
    ELSE <<>>
\* lines 306-309: the spawn check
b_spawn_errors(pos) ==
    IF ~InGrid0(pos[1], pos[2], b_rows, b_cols)
    THEN <<Err(spy_id, "Spawn out of bounds", spawn)>>
    ELSE IF b_char(pos) = WALL_CHAR
    THEN <<Err(spy_id, "Spawn is inside a wall", spawn)>>
    ELSE <<>>

\* lines 297-309: errors = [], pos = spawn - 1, the spawn check
BStart ==
    /\ b_pc = "start"
    /\ b_pos' = <<spawn[1] - 1, spawn[2] - 1>>
    /\ b_errors' = b_spawn_errors(<<spawn[1] - 1, spawn[2] - 1>>)
    /\ b_i' = 1
    /\ b_pc' = "walk"
    /\ b_seen' = {}
    /\ UNCHANGED <<mazeVars, spyVars, walkIn, vVars, litVars, levelVars>>

\* the mutation of BStep that walks the spawn list itself instead of a copy
BStep_InPlace ==
    /\ b_pc = "walk"
    /\ b_i <= Len(route)
    /\ LET vector == route[b_i]
           target == <<vector.end[1] - 1, vector.end[2] - 1>>
           pos == Moved(b_pos, vector.dir)
       IN IF b_pos = target
          THEN b_i' = b_i + 1 /\ UNCHANGED <<b_pos, b_errors, b_seen, spawn>>
          ELSE /\ b_pos' = pos
               /\ spawn' = <<pos[1] + 1, pos[2] + 1>>
               /\ b_seen' = IF pos = b_pos THEN b_seen
                            ELSE b_seen \cup {<<pos[1] + 1, pos[2] + 1>>}
               /\ IF ~InGrid0(pos[1], pos[2], b_rows, b_cols)
                  THEN /\ b_errors' = Append(b_errors,
                              Err(spy_id, "Route goes out of bounds", <<pos[1] + 1, pos[2] + 1>>))
                       /\ b_i' = b_i + 1
                  ELSE IF b_char(pos) = WALL_CHAR
                  THEN /\ b_errors' = Append(b_errors,
                              Err(spy_id, "Route hits wall", <<pos[1] + 1, pos[2] + 1>>))
                       /\ b_i' = b_i + 1
                  ELSE UNCHANGED <<b_errors, b_i>>
    /\ UNCHANGED <<b_pc, mazeVars, spyVars, spy_id, route, vVars, litVars, levelVars>>

\* lines 312-332: one test of "while pos != target" for vector b_i and, when it
\* holds, one pass of the loop body; "break" and a false test go on to the next vector
BStep ==
    /\ b_pc = "walk"
    /\ b_i <= Len(route)
    /\ LET vector == route[b_i]
           target == <<vector.end[1] - 1, vector.end[2] - 1>>
           pos == Moved(b_pos, vector.dir)
       IN IF b_pos = target
          THEN b_i' = b_i + 1 /\ UNCHANGED <<b_pos, b_errors, b_seen>>
          ELSE /\ b_pos' = pos
               /\ b_seen' = IF pos = b_pos THEN b_seen
                            ELSE b_seen \cup {<<pos[1] + 1, pos[2] + 1>>}
               /\ IF ~InGrid0(pos[1], pos[2], b_rows, b_cols)
                  THEN /\ b_errors' = Append(b_errors,
                              Err(spy_id, "Route goes out of bounds", <<pos[1] + 1, pos[2] + 1>>))
                       /\ b_i' = b_i + 1
                  ELSE IF b_char(pos) = WALL_CHAR
                  THEN /\ b_errors' = Append(b_errors,
                              Err(spy_id, "Route hits wall", <<pos[1] + 1, pos[2] + 1>>))
                       /\ b_i' = b_i + 1
                  ELSE UNCHANGED <<b_errors, b_i>>
    /\ UNCHANGED <<b_pc, mazeVars, spyVars, walkIn, vVars, litVars, levelVars>>

\* lines 335-336: "if pos != spawn_0: errors.append(...)"
b_loop_errors_Unchecked(pos, spawn_0) == <<>>
b_loop_errors(pos, spawn_0) ==
    IF pos # spawn_0
    THEN <<Err(spy_id, "Route ends not at spawn", <<pos[1] + 1, pos[2] + 1>>)>>
    ELSE <<>>

\* lines 334-338: the loop is over; the route must end on the spawn
BFinish ==
    /\ b_pc = "walk"
    /\ b_i > Len(route)
    /\ b_errors' = b_errors \o b_loop_errors(b_pos, <<spawn[1] - 1, spawn[2] - 1>>)
    /\ b_pc' = "done"
    /\ UNCHANGED <<b_pos, b_i, b_seen, mazeVars, spyVars, walkIn, vVars, litVars, levelVars>>

(***************************************************************************)
(* validate_spy (validate_levels.py), one action per step of the function. *)
(* v_pos is 1-indexed as in the code.  The spy always carries an id and a  *)
(* route key; its spawn key may be absent.                                 *)
(***************************************************************************)
\* measure_maze: <<rows, max_cols>>, the number of lines and the length of the
\* longest one (0 for an empty file)
measure_maze(maze_lines) ==
    <<Len(maze_lines),
      IF maze_lines = <<>> THEN 0
      ELSE CHOOSE n \in {Len(maze_lines[r]) : r \in 1..Len(maze_lines)} :
               \A r \in 1..Len(maze_lines) : Len(maze_lines[r]) <= n>>

\* actual_rows, actual_cols as validate_level hands them to validate_spy
v_rows == measure_maze(maze)[1]
v_cols == measure_maze(maze)[2]

\* get_char_at: '' outside the grid
get_char_at(maze_lines, line, col) ==
    IF line < 1 \/ line > Len(maze_lines) THEN ""
    ELSE IF col < 1 \/ col > Len(maze_lines[line]) THEN ""
    ELSE maze_lines[line][col]

\* lines 215-249: the spawn checks, the empty-route check, pos = list(spawn)
VStart ==
    /\ v_pc = "start"
    /\ IF spawn = Missing THEN
           /\ v_errors' = <<Err(spy_id, "missing spawn position", Missing)>>
           /\ v_pc' = "done"
           /\ UNCHANGED <<v_pos, v_i, v_seen>>
       ELSE IF spawn[1] < 1 \/ spawn[1] > v_rows THEN
           /\ v_errors' = <<Err(spy_id, "spawn line out of bounds", spawn)>>
           /\ v_pc' = "done"
           /\ UNCHANGED <<v_pos, v_i, v_seen>>
       ELSE IF spawn[2] < 1 \/ spawn[2] > v_cols THEN
           /\ v_errors' = <<Err(spy_id, "spawn col out of bounds", spawn)>>
           /\ v_pc' = "done"
           /\ UNCHANGED <<v_pos, v_i, v_seen>>
       ELSE
           LET wall == IF get_char_at(maze, spawn[1], spawn[2]) = WALL_CHAR
                       THEN <<Err(spy_id, "spawn is on a wall", spawn)>>
                       ELSE <<>>
           IN IF route = <<>>
              THEN /\ v_errors' = Append(wall, Err(spy_id, "empty route", spawn))
                   /\ v_pc' = "done"
                   /\ UNCHANGED <<v_pos, v_i, v_seen>>
              ELSE /\ v_errors' = wall
                   /\ v_pos' = spawn
                   /\ v_i' = 1
                   /\ v_pc' = "walk"
                   /\ v_seen' = {}
    /\ UNCHANGED <<mazeVars, spyVars, walkIn, bVars, litVars, levelVars>>

\* lines 251-278: one test of "while pos != target" for vector v_i and, when it
\* holds, one pass of the loop body; every violation returns
VStep ==
    /\ v_pc = "walk"
    /\ v_i <= Len(route)
    /\ LET vector == route[v_i]
           target == vector.end
           pos == Moved(v_pos, vector.dir)
       IN IF v_pos = target
          THEN v_i' = v_i + 1 /\ UNCHANGED <<v_pos, v_errors, v_pc, v_seen>>
          ELSE IF vector.dir \notin Directions
          THEN /\ v_errors' = Append(v_errors, Err(spy_id, "invalid direction", v_pos))
               /\ v_pc' = "done"
               /\ UNCHANGED <<v_pos, v_i, v_seen>>
          ELSE /\ v_pos' = pos
               /\ v_seen' = v_seen \cup {pos}
               /\ UNCHANGED v_i
               /\ IF pos[1] < 1 \/ pos[1] > v_rows \/ pos[2] < 1 \/ pos[2] > v_cols
                  THEN /\ v_errors' = Append(v_errors, Err(spy_id, "route goes out of bounds", pos))
                       /\ v_pc' = "done"
                  ELSE IF get_char_at(maze, pos[1], pos[2]) = WALL_CHAR
                  THEN /\ v_errors' = Append(v_errors, Err(spy_id, "route hits wall", pos))
                       /\ v_pc' = "done"
                  ELSE UNCHANGED <<v_errors, v_pc>>
    /\ UNCHANGED <<mazeVars, spyVars, walkIn, bVars, litVars, levelVars>>

\* lines 280-284: the loop is over; the route must end on the spawn
VFinish ==
    /\ v_pc = "walk"
    /\ v_i > Len(route)
    /\ v_errors' = IF v_pos # spawn
                   THEN Append(v_errors, Err(spy_id, "route ends instead of spawn", v_pos))
                   ELSE v_errors
    /\ v_pc' = "done"
    /\ UNCHANGED <<v_pos, v_i, v_seen, mazeVars, spyVars, walkIn, bVars, litVars, levelVars>>

(***************************************************************************)
(* SpecWalk: both walkers on the same grid, spawn and route.               *)
(***************************************************************************)
MaxRoute == 2

\* a rows x cols grid, floor but for the 1-indexed cells of `walls`
GridWithWalls(rows, cols, walls) ==
    [r \in 1..rows |-> [c \in 1..cols |->
        IF <<r, c>> \in walls THEN WALL_CHAR ELSE FLOOR_CHAR]]

WalkMazes == {GridWithWalls(2, 2, w) : w \in {{}, {<<1, 2>>}, {<<2, 1>>}}}
WalkCells == (1..2) \X (1..2)
WalkSpawns == WalkCells \cup {<<0, 2>>, <<3, 1>>, <<1, 0>>, <<2, 3>>}
WalkVectors == {Vec(e, d) : e \in WalkCells, d \in Directions \cup {"diagonal"}}
WalkRoutes == UNION {[1..n -> WalkVectors] : n \in 0..MaxRoute}

InitWalk ==
    /\ maze \in WalkMazes
    /\ spy_id = "spy1"
    /\ spawn \in WalkSpawns
    /\ route \in WalkRoutes
    /\ b_pos = Missing /\ b_i = 0 /\ b_errors = <<>> /\ b_pc = "start" /\ b_seen = {}
    /\ v_pos = Missing /\ v_i = 0 /\ v_errors = <<>> /\ v_pc = "start" /\ v_seen = {}
    /\ IdleMaze /\ IdleSpies /\ IdleLit /\ IdleLevel

\* The walkers are independent functions of the same input: validate_spy is run
\* to its return, then validate_route, so that every input is walked by both.
NextWalk ==
    \/ VStart \/ VStep \/ VFinish
    \/ (v_pc = "done" /\ (BStart \/ BStep \/ BFinish))

SpecWalk == InitWalk /\ [][NextWalk]_vars

\* A function that has been called keeps running: every step that changes the
\* state is eventually taken.  A pass of a loop that changes nothing is no such
\* step, so a walker whose loop no longer changes anything stays in it.
SpecWalkFair == SpecWalk /\ WF_vars(NextWalk)

(***************************************************************************)
(* validate_level (validate_levels.py).  The level directory holds meta.vim *)
(* and maze.txt; either may be absent, and meta.vim may fail to parse.  The *)
(* parsed metadata is a function from the keys present to their values.    *)
(* A violation is labelled with the field it is about.                     *)
(***************************************************************************)
\* dict.get(key, default)
Get(dict, key, default) == IF key \in DOMAIN dict THEN dict[key] ELSE default

\* the mutation of dimension_errors that stops at the first mismatch
dimension_errors_FirstOnly(dict, maze_lines) ==
    IF "maze" \notin DOMAIN dict
    THEN <<Err("maze", "missing in metadata", Missing)>>
    ELSE LET expected_rows == Get(dict["maze"], "lines", 0)
             expected_cols == Get(dict["maze"], "cols", 0)
             actual == measure_maze(maze_lines)
         IN IF expected_rows # actual[1]
            THEN <<Err("maze", "lines mismatch", <<expected_rows, actual[1]>>)>>
            ELSE IF expected_cols # actual[2]
            THEN <<Err("maze", "cols mismatch", <<expected_cols, actual[2]>>)>>
            ELSE <<>>

\* lines 163-174: the dimensions of the metadata against the measured ones
dimension_errors(dict, maze_lines) ==
    IF "maze" \notin DOMAIN dict
    THEN <<Err("maze", "missing in metadata", Missing)>>
    ELSE LET expected_rows == Get(dict["maze"], "lines", 0)
             expected_cols == Get(dict["maze"], "cols", 0)
             actual == measure_maze(maze_lines)
         IN (IF expected_rows # actual[1]
             THEN <<Err("maze", "lines mismatch", <<expected_rows, actual[1]>>)>>
             ELSE <<>>)
            \o (IF expected_cols # actual[2]
                THEN <<Err("maze", "cols mismatch", <<expected_cols, actual[2]>>)>>
                ELSE <<>>)

\* the mutation of cursor_errors that never looks at the cell
cursor_errors_BoundsOnly(name, dict, maze_lines) ==
    LET actual == measure_maze(maze_lines)
    IN IF name \notin DOMAIN dict THEN <<Err(name, "missing", Missing)>>
       ELSE IF dict[name][1] < 1 \/ dict[name][1] > actual[1]
       THEN <<Err(name, "line out of bounds", dict[name])>>
       ELSE IF dict[name][2] < 1 \/ dict[name][2] > actual[2]
       THEN <<Err(name, "col out of bounds", dict[name])>>
       ELSE <<>>

\* lines 177-189 for start_cursor, 191-202 for exit_cursor: the same checks
cursor_errors(name, dict, maze_lines) ==
    LET actual == measure_maze(maze_lines)
    IN IF name \notin DOMAIN dict THEN <<Err(name, "missing", Missing)>>
       ELSE LET line == dict[name][1]
                col == dict[name][2]
            IN IF line < 1 \/ line > actual[1]
               THEN <<Err(name, "line out of bounds", dict[name])>>
               ELSE IF col < 1 \/ col > actual[2]
               THEN <<Err(name, "col out of bounds", dict[name])>>
               ELSE IF get_char_at(maze_lines, line, col) = WALL_CHAR
               THEN <<Err(name, "is on a wall", dict[name])>>
               ELSE <<>>

\* lines 137-202: load the files (each failure returns), then the dimension
\* check and the two cursor checks
ValidateLevelStart ==
    /\ lv_pc = "start"
    /\ IF level_path.meta_vim.state = "absent" THEN
           /\ errors' = <<Err("meta.vim", "not found", Missing)>>
           /\ lv_pc' = "returned"
           /\ UNCHANGED <<meta, maze, lv_k>>
       ELSE IF level_path.meta_vim.state = "unparseable" THEN
           /\ errors' = <<Err("meta.vim", "failed to parse", Missing)>>
           /\ lv_pc' = "returned"
           /\ UNCHANGED <<meta, maze, lv_k>>
       ELSE IF level_path.maze_txt.state = "absent" THEN
           /\ meta' = level_path.meta_vim.dict
           /\ errors' = <<Err("maze.txt", "not found", Missing)>>
           /\ lv_pc' = "returned"
           /\ UNCHANGED <<maze, lv_k>>
       ELSE
           LET dict == level_path.meta_vim.dict
               maze_lines == level_path.maze_txt.lines
           IN /\ meta' = dict
              /\ maze' = maze_lines
              /\ errors' = dimension_errors(dict, maze_lines)
                              \o cursor_errors("start_cursor", dict, maze_lines)
                              \o cursor_errors("exit_cursor", dict, maze_lines)
              /\ lv_k' = 1
              /\ lv_pc' = "spies"
    /\ UNCHANGED <<level_path, config, m_pc, spyVars, walkIn, bVars, vVars, litVars>>

\* lines 205-207: the next spy of meta['spies'] is handed to validate_spy
LevelSpy ==
    /\ lv_pc = "spies"
    /\ "spies" \in DOMAIN meta
    /\ lv_k <= Len(meta["spies"])
    /\ LET spy == meta["spies"][lv_k]
       IN /\ spy_id' = spy.id
          /\ spawn' = spy.spawn
          /\ route' = spy.route
    /\ v_pos' = Missing /\ v_i' = 0 /\ v_errors' = <<>> /\ v_pc' = "start" /\ v_seen' = {}
    /\ lv_pc' = "spy"
    /\ UNCHANGED <<level_path, meta, errors, lv_k, mazeVars, spyVars, bVars, litVars>>

\* line 208: errors.extend(spy_errors)
LevelCollect ==
    /\ lv_pc = "spy"
    /\ v_pc = "done"
    /\ errors' = errors \o v_errors
    /\ lv_k' = lv_k + 1
    /\ lv_pc' = "spies"
    /\ UNCHANGED <<level_path, meta, mazeVars, spyVars, walkIn, bVars, vVars, litVars>>

\* line 210: no 'spies' key, or the list is exhausted
LevelReturn ==
    /\ lv_pc = "spies"
    /\ "spies" \in DOMAIN meta => lv_k > Len(meta["spies"])
    /\ lv_pc' = "done"
    /\ UNCHANGED <<level_path, meta, errors, lv_k, mazeVars, spyVars, walkIn, bVars, vVars,
                   litVars>>

(***************************************************************************)
(* SpecLevel: validate_level on level directories whose maze is a 2 x 2    *)
(* grid with a wall, a file with a short second line, or an empty file.    *)
(***************************************************************************)
MaxCursor == 3

LevelMazes == {GridWithWalls(2, 2, {<<1, 2>>}),
               <<<<FLOOR_CHAR, WALL_CHAR>>, <<FLOOR_CHAR>>>>,
               <<>>}
Cursors == (0..MaxCursor) \X (0..MaxCursor)

\* meta['spies']: none, a sound spy, a spy on a wall that does not come back
\* followed by a sound one, a spy without spawn
LevelSpies ==
    LET sound == [id |-> "spy1", spawn |-> <<1, 1>>,
                  route |-> <<Vec(<<2, 1>>, "down"), Vec(<<1, 1>>, "up")>>]
        onWall == [id |-> "spy2", spawn |-> <<1, 2>>, route |-> <<Vec(<<1, 1>>, "left")>>]
        noSpawn == [id |-> "spy3", spawn |-> Missing, route |-> <<>>]
    IN {<<>>, <<sound>>, <<onWall, sound>>, <<noSpawn>>}

\* a dict with the keys of `keys` only
Restrict(dict, keys) == [key \in keys |-> dict[key]]

Metas ==
    LET full == {[key \in {"maze", "start_cursor", "exit_cursor", "spies"} |->
                     CASE key = "maze" -> m
                       [] key = "start_cursor" -> s
                       [] key = "exit_cursor" -> e
                       [] key = "spies" -> sp] :
                 m \in {[lines |-> 2, cols |-> 2], [cols |-> 2], [lines |-> 3, cols |-> 3]},
                 s \in Cursors, e \in Cursors, sp \in LevelSpies}
        optional == {"maze", "start_cursor", "exit_cursor", "spies"}
    IN {Restrict(dict, keys) : dict \in full, keys \in SUBSET optional}

Levels ==
    [meta_vim : {[state |-> "absent"], [state |-> "unparseable"]}
                    \cup {[state |-> "parsed", dict |-> dict] : dict \in Metas},
     maze_txt : {[state |-> "absent"]}
                    \cup {[state |-> "read", lines |-> lines] : lines \in LevelMazes}]

InitLevel ==
    /\ level_path \in Levels
    /\ meta = Missing /\ errors = <<>> /\ lv_k = 0 /\ lv_pc = "start"
    /\ maze = <<>>
    /\ IdleMaze /\ IdleSpies /\ IdleWalkIn /\ IdleB /\ IdleV /\ IdleLit

NextLevel ==
    \/ ValidateLevelStart \/ LevelSpy \/ LevelCollect \/ LevelReturn
    \/ (lv_pc = "spy" /\ (VStart \/ VStep \/ VFinish))

SpecLevel == InitLevel /\ [][NextLevel]_vars

(***************************************************************************)
(* generate_spies_vim (level_builder.py): the loop over the spies, with    *)
(* validate_route run as the call of line 353.                             *)
(***************************************************************************)
\* spy.get('speed', 1.0) when the key is absent; a speed is only copied, and is
\* held as the text str() gives it
NoSpeed == "absent"
DefaultSpeed == "1.0"

\* lines 347-353 with every error collected as a violation and the loop going
\* on to the next spy
GPlan_Accumulating ==
    /\ g_pc = "loop"
    /\ k <= Len(spies_config)
    /\ LET spy == spies_config[k]
       IN IF get_spawn_pos_raises(spy) \/ generate_patrol_route_raises(spy)
          THEN /\ all_errors' = Append(all_errors, Err(spy.id, "unusable spy", Missing))
               /\ k' = k + 1
               /\ UNCHANGED <<g_pc, walkIn, bVars>>
          ELSE /\ spy_id' = spy.id
               /\ spawn' = get_spawn_pos(spy)
               /\ route' = generate_patrol_route(spy)
               /\ b_pc' = "start"
               /\ g_pc' = "validating"
               /\ UNCHANGED <<k, all_errors, b_pos, b_i, b_errors, b_seen>>
    /\ UNCHANGED <<spies_config, spies_data, spies_vim, mazeVars, vVars, litVars, levelVars>>

\* lines 347-353: id, spawn and route of spy k; a ValueError of get_spawn_pos
\* ("raised_spawn") or of generate_patrol_route ("raised_route", the spawn
\* already assigned) leaves the function at once
GPlan ==
    /\ g_pc = "loop"
    /\ k <= Len(spies_config)
    /\ LET spy == spies_config[k]
       IN IF get_spawn_pos_raises(spy)
          THEN /\ spy_id' = spy.id
               /\ g_pc' = "raised_spawn"
               /\ UNCHANGED <<spawn, route, bVars>>
          ELSE IF generate_patrol_route_raises(spy)
          THEN /\ spy_id' = spy.id
               /\ spawn' = get_spawn_pos(spy)
               /\ g_pc' = "raised_route"
               /\ UNCHANGED <<route, bVars>>
          ELSE /\ spy_id' = spy.id
               /\ spawn' = get_spawn_pos(spy)
               /\ route' = generate_patrol_route(spy)
               /\ b_pc' = "start"
               /\ g_pc' = "validating"
               /\ UNCHANGED <<b_pos, b_i, b_errors, b_seen>>
    /\ UNCHANGED <<spies_config, k, all_errors, spies_data, spies_vim, mazeVars, vVars, litVars, levelVars>>

\* lines 354-361 with the violations of the first spy that has any kept and
\* those of the later spies dropped
GCollect_FirstOnly ==
    /\ g_pc = "validating"
    /\ b_pc = "done"
    /\ LET spy == spies_config[k]
           speed == IF spy.speed = NoSpeed THEN DefaultSpeed ELSE spy.speed
       IN /\ all_errors' = IF all_errors = <<>> THEN b_errors ELSE all_errors
          /\ spies_data' = Append(spies_data,
                 [id |-> spy_id, spawn |-> spawn, route |-> route, speed |-> speed])
    /\ k' = k + 1
    /\ g_pc' = "loop"
    /\ b_pc' = "returned"
    /\ UNCHANGED <<spies_config, spies_vim, walkIn, b_pos, b_i, b_errors, b_seen,
                   mazeVars, vVars, litVars, levelVars>>

\* lines 354-361: all_errors.extend(errors); spies_data.append({...})
GCollect ==
    /\ g_pc = "validating"
    /\ b_pc = "done"
    /\ LET spy == spies_config[k]
           speed == IF spy.speed = NoSpeed THEN DefaultSpeed ELSE spy.speed
       IN /\ all_errors' = all_errors \o b_errors
          /\ spies_data' = Append(spies_data,
                 [id |-> spy_id, spawn |-> spawn, route |-> route, speed |-> speed])
    /\ k' = k + 1
    /\ g_pc' = "loop"
    /\ b_pc' = "returned"
    /\ UNCHANGED <<spies_config, spies_vim, walkIn, b_pos, b_i, b_errors, b_seen,
                   mazeVars, vVars, litVars, levelVars>>

\* lines 365-392: the three comment lines, then the list, one entry per spy of
\* spies_data, each but the last followed by a comma
SpiesLines(data) ==
    <<"\" Spy patrol data for this level",
      "\" Generated by tools/level_builder.py - do not edit manually",
      "\" Format: Vim list - use eval(join(readfile(...), \"\")) to parse",
      [n \in 1..Len(data) |->
          [id |-> data[n].id, spawn |-> data[n].spawn, route |-> data[n].route,
           speed |-> data[n].speed, comma |-> n < Len(data)]]>>

\* the loop is over: return '\n'.join(lines), all_errors
GEmit ==
    /\ g_pc = "loop"
    /\ k > Len(spies_config)
    /\ spies_vim' = SpiesLines(spies_data)
    /\ g_pc' = "done"
    /\ UNCHANGED <<spies_config, k, all_errors, spies_data, walkIn, bVars,
                   mazeVars, vVars, litVars, levelVars>>

(***************************************************************************)
(* SpecPatrol: generate_spies_vim on one or two spy definitions, on a 4x4   *)
(* grid of generate_maze whose inner cells are floor.                      *)
(***************************************************************************)
MaxWaypoints == 4

PatrolConfig == [dimensions |-> <<4, 4>>, walls |-> <<>>, openings |-> <<>>, exit |-> Missing]
PatrolCells == (2..3) \X (2..3)
PatrolSpawns == {Missing, <<2, 2>>, <<3, 3>>}
PatrolSpeeds == {NoSpeed, "2.5"}

SpyConfigs ==
    [id : {"spy1"}, pattern : {"horizontal", "vertical"},
     endpoints : PatrolCells \X PatrolCells, spawn : PatrolSpawns, speed : PatrolSpeeds]
    \cup [id : {"spy1"}, pattern : {"loop"},
          waypoints : UNION {[1..n -> PatrolCells] : n \in 0..MaxWaypoints},
          direction : {"cw", "ccw", NoDirection},
          spawn : PatrolSpawns, speed : PatrolSpeeds]
    \cup [id : {"spy1"}, pattern : {"diagonal"}, spawn : PatrolSpawns, speed : PatrolSpeeds]

\* the lists of spies: one spy of SpyConfigs, or a back-and-forth spy followed
\* by a second spy of an unknown pattern (without and with a spawn), a good one,
\* or one whose spawn is off its route
SpyLists ==
    {<<spy>> : spy \in SpyConfigs}
    \cup {<<first, second>> :
            first \in {spy \in SpyConfigs : spy.pattern \in {"horizontal", "vertical"}
                                            /\ spy.speed = NoSpeed},
            second \in {[id |-> "spy2", pattern |-> "diagonal", spawn |-> Missing, speed |-> NoSpeed],
                        [id |-> "spy2", pattern |-> "diagonal", spawn |-> <<3, 2>>, speed |-> NoSpeed],
                        [id |-> "spy2", pattern |-> "horizontal",
                         endpoints |-> << <<2, 2>>, <<2, 3>> >>, spawn |-> Missing,
                         speed |-> NoSpeed],
                        [id |-> "spy2", pattern |-> "horizontal",
                         endpoints |-> << <<2, 2>>, <<2, 3>> >>, spawn |-> <<3, 3>>,
                         speed |-> "2.5"]}}

InitPatrol ==
    /\ config = PatrolConfig
    /\ maze = generate_maze(PatrolConfig)
    /\ m_pc = "done"
    /\ spies_config \in SpyLists
    /\ k = 1 /\ all_errors = <<>> /\ spies_data = <<>> /\ g_pc = "loop" /\ spies_vim = <<>>
    /\ IdleWalkIn /\ IdleB /\ IdleV /\ IdleLit /\ IdleLevel

NextPatrol == GPlan \/ BStart \/ BStep \/ BFinish \/ GCollect \/ GEmit

SpecPatrol == InitPatrol /\ [][NextPatrol]_vars

(***************************************************************************)
(* Vim literals: format_vim_value (level_builder.py) and parse_vim_dict    *)
(* (validate_levels.py).  A value is a record tagged by t:                 *)
(*   [t |-> "null"]   [t |-> "bool", b]   [t |-> "int", n]                 *)
(*   [t |-> "str", s]   [t |-> "list", items]   [t |-> "dict", entries]    *)
(* s is a sequence of characters, entries a sequence of <<key, value>>     *)
(* pairs in insertion order, the key a value itself.  A call that ends in  *)
(* an exception yields Raised.                                             *)
(***************************************************************************)
NL == "\n"
BS == "\\"
SQ == "'"
DQ == "\""
SP == " "
TAB == "\t"

PyNone == [t |-> "null"]
PyBool(b) == [t |-> "bool", b |-> b]
PyInt(n) == [t |-> "int", n |-> n]
PyStr(s) == [t |-> "str", s |-> s]
PyList(items) == [t |-> "list", items |-> items]
PyDict(entries) == [t |-> "dict", entries |-> entries]
\* the call raised (SyntaxError, TypeError, ...)
Raised == [t |-> "raise"]
\* Python syntax outside the literals this model evaluates
Unmodelled == [t |-> "unmodelled"]
PyFail(v) == v.t \in {"raise", "unmodelled"}

\* Python's ==: bool is a subclass of int (True == 1), dicts compare as
\* mappings whatever their order; an exception equals nothing
IsNum(v) == v.t \in {"bool", "int"}
Num(v) == IF v.t = "bool" THEN (IF v.b THEN 1 ELSE 0) ELSE v.n
RECURSIVE PyEqual(_, _)
PyEqual(a, b) ==
    IF IsNum(a) /\ IsNum(b) THEN Num(a) = Num(b)
    ELSE IF a.t # b.t THEN FALSE
    ELSE IF a.t = "null" THEN TRUE
    ELSE IF a.t = "str" THEN a.s = b.s
    ELSE IF a.t = "list"
    THEN /\ Len(a.items) = Len(b.items)
         /\ \A i \in 1..Len(a.items) : PyEqual(a.items[i], b.items[i])
    ELSE IF a.t = "dict"
    THEN /\ Len(a.entries) = Len(b.entries)
         /\ \A i \in 1..Len(a.entries) : \E j \in 1..Len(b.entries) :
                /\ PyEqual(a.entries[i][1], b.entries[j][1])
                /\ PyEqual(a.entries[i][2], b.entries[j][2])
    ELSE FALSE

\* sep.join(parts)
RECURSIVE Join(_, _)
Join(parts, sep) ==
    IF Len(parts) = 0 THEN <<>>
    ELSE IF Len(parts) = 1 THEN parts[1]
    ELSE parts[1] \o sep \o Join(Tail(parts), sep)

\* ' ' * n
Spaces(n) == [i \in 1..n |-> SP]

\* c in s
Contains(s, c) == \E i \in 1..Len(s) : s[i] = c

StartsWithAt(s, i, pat) ==
    /\ i + Len(pat) - 1 <= Len(s)
    /\ \A j \in 1..Len(pat) : s[i + j - 1] = pat[j]

\* the first index from i on where `old` starts (Len(s) + 1 if none)
Find(s, i, old) ==
    IF \E j \in i..Len(s) : StartsWithAt(s, j, old)
    THEN CHOOSE j \in i..Len(s) :
             StartsWithAt(s, j, old) /\ \A m \in i..(j - 1) : ~StartsWithAt(s, m, old)
    ELSE Len(s) + 1

\* the first index from i on whose character is in `set` (Len(s) + 1 if none)
FirstIn(s, i, set) ==
    IF \E j \in i..Len(s) : s[j] \in set
    THEN CHOOSE j \in i..Len(s) : s[j] \in set /\ \A m \in i..(j - 1) : s[m] \notin set
    ELSE Len(s) + 1

\* the first index from i on whose character is outside `set` (Len(s) + 1 if none)
RunEnd(s, i, set) ==
    IF \E j \in i..Len(s) : s[j] \notin set
    THEN CHOOSE j \in i..Len(s) : s[j] \notin set /\ \A m \in i..(j - 1) : s[m] \in set
    ELSE Len(s) + 1

\* s.replace(old, new): leftmost non-overlapping occurrences, old non-empty
RECURSIVE ReplaceFrom(_, _, _, _)
ReplaceFrom(s, i, old, new) ==
    LET j == Find(s, i, old)
    IN  IF j > Len(s) THEN SubSeq(s, i, Len(s))
        ELSE SubSeq(s, i, j - 1) \o new \o ReplaceFrom(s, j + Len(old), old, new)

Replace(s, old, new) == ReplaceFrom(s, 1, old, new)

\* str(n) for an int
Digits == <<"0", "1", "2", "3", "4", "5", "6", "7", "8", "9">>
RECURSIVE NatStr(_)
NatStr(n) == IF n < 10 THEN <<Digits[n + 1]>> ELSE NatStr(n \div 10) \o <<Digits[(n % 10) + 1]>>
IntStr(n) == IF n < 0 THEN <<"-">> \o NatStr(-n) ELSE NatStr(n)

V_NULL == <<"v", ":", "n", "u", "l", "l">>
V_TRUE == <<"v", ":", "t", "r", "u", "e">>
V_FALSE == <<"v", ":", "f", "a", "l", "s", "e">>
PY_NONE == <<"N", "o", "n", "e">>
PY_TRUE == <<"T", "r", "u", "e">>
PY_FALSE == <<"F", "a", "l", "s", "e">>

\* s.replace("'", "''")
escape_vim_single_quoted(s) == Replace(s, <<SQ>>, <<SQ, SQ>>)

\* double quotes first, then backslashes, then newlines
escape_vim_double_quoted_QuotesFirst(s) ==
    Replace(Replace(Replace(s, <<DQ>>, <<BS, DQ>>), <<BS>>, <<BS, BS>>), <<NL>>, <<BS, "n">>)

\* backslashes first, then double quotes, then newlines
escape_vim_double_quoted(s) ==
    Replace(Replace(Replace(s, <<BS>>, <<BS, BS>>), <<DQ>>, <<BS, DQ>>), <<NL>>, <<BS, "n">>)

\* the thresholds of the one-line layouts: len(v) < 40, total_len < 60
SimpleStringLimit == 40
SimpleDictLimit == 60

\* the mutation of IsSimpleItem that lets a string of 40 characters through
IsSimpleItem_AtMostLimit(v) ==
    \/ v.t \in {"int", "bool"}
    \/ v.t = "str" /\ Len(v.s) <= SimpleStringLimit /\ ~Contains(v.s, NL)

\* an item that keeps a list on one line
IsSimpleItem(v) ==
    \/ v.t \in {"int", "bool"}
    \/ v.t = "str" /\ Len(v.s) < SimpleStringLimit /\ ~Contains(v.s, NL)

\* the key as the f-string "'{k}'" prints it: str(k), not escaped
KeyText(key) ==
    IF key.t = "str" THEN key.s
    ELSE IF key.t = "int" THEN IntStr(key.n)
    ELSE IF key.t = "bool" THEN (IF key.b THEN PY_TRUE ELSE PY_FALSE)
    ELSE PY_NONE

\* the mutation of SumLen that measures the joined line, separators included
RECURSIVE SumLen_Joined(_)
SumLen_Joined(items) ==
    IF Len(items) = 0 THEN 0
    ELSE Len(items[1]) + (IF Len(items) > 1 THEN 2 ELSE 0) + SumLen_Joined(Tail(items))

RECURSIVE SumLen(_)
SumLen(items) == IF Len(items) = 0 THEN 0 ELSE Len(items[1]) + SumLen(Tail(items))

RECURSIVE format_vim_value(_, _)
format_vim_value(v, indent) ==
    IF v.t = "null" THEN V_NULL
    ELSE IF v.t = "bool" THEN (IF v.b THEN V_TRUE ELSE V_FALSE)
    ELSE IF v.t = "int" THEN IntStr(v.n)
    ELSE IF v.t = "str"
    THEN IF Contains(v.s, NL)
         THEN <<DQ>> \o escape_vim_double_quoted(v.s) \o <<DQ>>
         ELSE <<SQ>> \o escape_vim_single_quoted(v.s) \o <<SQ>>
    ELSE IF v.t = "list"
    THEN IF Len(v.items) = 0 THEN <<"[", "]">>
         ELSE LET items == [i \in 1..Len(v.items) |-> format_vim_value(v.items[i], indent + 2)]
                  inner_indent == Spaces(indent + 2)
                  formatted_items == [i \in 1..Len(items) |-> inner_indent \o items[i] \o <<",">>]
              IN  IF \A i \in 1..Len(v.items) : IsSimpleItem(v.items[i])
                  THEN <<"[">> \o Join(items, <<",", SP>>) \o <<"]">>
                  ELSE <<"[", NL>> \o Join(formatted_items, <<NL>>) \o <<NL>>
                       \o Spaces(indent) \o <<"]">>
    ELSE IF Len(v.entries) = 0 THEN <<"{", "}">>
         ELSE LET items == [i \in 1..Len(v.entries) |->
                               <<SQ>> \o KeyText(v.entries[i][1]) \o <<SQ, ":", SP>>
                               \o format_vim_value(v.entries[i][2], indent + 2)]
                  total_len == SumLen(items)
                  inner_indent == Spaces(indent + 2)
                  formatted_items == [i \in 1..Len(items) |-> inner_indent \o items[i] \o <<",">>]
              IN  IF total_len < SimpleDictLimit /\ \A i \in 1..Len(items) : ~Contains(items[i], NL)
                  THEN <<"{">> \o Join(items, <<",", SP>>) \o <<"}">>
                  ELSE <<"{", NL>> \o Join(formatted_items, <<NL>>) \o <<NL>>
                       \o Spaces(indent) \o <<"}">>

(***************************************************************************)
(* parse_vim_dict, phase by phase.                                         *)
(***************************************************************************)
\* content.split('\n')
RECURSIVE SplitLines(_, _)
SplitLines(s, i) ==
    LET j == FirstIn(s, i, {NL})
    IN  IF j > Len(s) THEN <<SubSeq(s, i, Len(s))>>
        ELSE <<SubSeq(s, i, j - 1)>> \o SplitLines(s, j + 1)

\* the characters str.lstrip() removes, as far as the model's alphabet has them
Whitespace == {SP, TAB, NL}

lstrip(s) == SubSeq(s, RunEnd(s, 1, Whitespace), Len(s))

\* the loop over lines: a line whose first non-blank character is a
\* backslash is appended to the line before it
RECURSIVE JoinContinuations(_, _)
JoinContinuations(lines, joined_lines) ==
    IF Len(lines) = 0 THEN joined_lines
    ELSE LET line == Head(lines)
             stripped == lstrip(line)
         IN  IF Len(stripped) > 0 /\ stripped[1] = BS
             THEN LET rest == lstrip(Tail(stripped))
                  IN  IF Len(joined_lines) > 0
                      THEN JoinContinuations(Tail(lines),
                               [joined_lines EXCEPT ![Len(joined_lines)] = @ \o <<SP>> \o rest])
                      ELSE JoinContinuations(Tail(lines), <<rest>>)
             ELSE JoinContinuations(Tail(lines), Append(joined_lines, line))

JoinContinuationLines(content) == Join(JoinContinuations(SplitLines(content, 1), <<>>), <<NL>>)

\* the three content.replace calls, over the whole text
ReplaceVimTokens(content) ==
    Replace(Replace(Replace(content, V_NULL, PY_NONE), V_TRUE, PY_TRUE), V_FALSE, PY_FALSE)

\* the inner loop of the single-quote branch, from index j: the characters
\* of the span and the index it stops at
RECURSIVE SingleQuoted(_, _, _)
SingleQuoted(content, j, inner_chars) ==
    LET q == FirstIn(content, j, {SQ})
        copied == inner_chars \o SubSeq(content, j, q - 1)
    IN  IF q > Len(content) THEN [inner |-> copied, j |-> q]
        ELSE IF q + 1 <= Len(content) /\ content[q + 1] = SQ
        THEN SingleQuoted(content, q + 2, Append(copied, SQ))
        ELSE [inner |-> copied, j |-> q]

\* the inner loop of the double-quote branch: the first double quote from j
\* on that no backslash precedes
DoubleQuotedEnd(content, j) ==
    LET Ends(m) == content[m] = DQ /\ content[m - 1] # BS
    IN  IF \E m \in j..Len(content) : Ends(m)
        THEN CHOOSE m \in j..Len(content) : Ends(m) /\ \A n \in j..(m - 1) : ~Ends(n)
        ELSE Len(content) + 1

\* the while loop that rewrites the Vim strings as Python strings
RECURSIVE ConvertStrings(_, _)
ConvertStrings(content, i) ==
    LET q == FirstIn(content, i, {SQ, DQ})
        copied == SubSeq(content, i, q - 1)
    IN  IF q > Len(content) THEN copied
        ELSE IF content[q] = SQ
        THEN LET r == SingleQuoted(content, q + 1, <<>>)
                 inner == Replace(Replace(r.inner, <<BS>>, <<BS, BS>>), <<DQ>>, <<BS, DQ>>)
             IN  copied \o <<DQ>> \o inner \o <<DQ>> \o ConvertStrings(content, r.j + 1)
        ELSE LET j == DoubleQuotedEnd(content, q + 1)
                 last == IF j > Len(content) THEN Len(content) ELSE j
             IN  copied \o SubSeq(content, q, last) \o ConvertStrings(content, j + 1)

(***************************************************************************)
(* eval(content): Python's evaluation of a literal expression.  A result   *)
(* is [v |-> value, i |-> index after the expression]; v is Raised where   *)
(* Python raises and Unmodelled for syntax outside None/True/False,        *)
(* decimal integers, string literals (adjacent ones concatenated), list    *)
(* and dict displays.                                                      *)
(***************************************************************************)
Letters ==
    {"a", "b", "c", "d", "e", "f", "g", "h", "i", "j", "k", "l", "m",
     "n", "o", "p", "q", "r", "s", "t", "u", "v", "w", "x", "y", "z",
     "A", "B", "C", "D", "E", "F", "G", "H", "I", "J", "K", "L", "M",
     "N", "O", "P", "Q", "R", "S", "T", "U", "V", "W", "X", "Y", "Z", "_"}
DigitChars == {Digits[d] : d \in 1..10}
DigitValue(c) == CHOOSE d \in 0..9 : Digits[d + 1] = c

RECURSIVE StrToNat(_)
StrToNat(ds) ==
    IF Len(ds) = 0 THEN 0
    ELSE StrToNat(SubSeq(ds, 1, Len(ds) - 1)) * 10 + DigitValue(ds[Len(ds)])

\* whitespace between tokens: newlines count only inside brackets
TopWs == {SP, TAB}
BracketWs == {SP, TAB, NL}

\* skip whitespace and backslash-newline joins
RECURSIVE SkipWs(_, _, _)
SkipWs(s, i, ws) ==
    LET j == RunEnd(s, i, ws)
    IN  IF j < Len(s) /\ s[j] = BS /\ s[j + 1] = NL THEN SkipWs(s, j + 2, ws) ELSE j

\* escapes with a meaning of their own that the model's texts never use
OtherEscapes == {"a", "b", "f", "r", "v", "x", "N", "u", "U", "0", "1", "2", "3", "4", "5", "6", "7"}

\* the body of a string literal opened by quote q, from index j
RECURSIVE PyStringBody(_, _, _, _)
PyStringBody(s, j, q, acc) ==
    LET e == FirstIn(s, j, {q, NL, BS})
        got == acc \o SubSeq(s, j, e - 1)
    IN  IF e > Len(s) THEN [v |-> Raised, i |-> e]
        ELSE IF s[e] = q THEN [v |-> PyStr(got), i |-> e + 1]
        ELSE IF s[e] = NL THEN [v |-> Raised, i |-> e]
        ELSE IF e = Len(s) THEN [v |-> Raised, i |-> e]
        ELSE LET c == s[e + 1]
             IN  IF c \in {BS, SQ, DQ} THEN PyStringBody(s, e + 2, q, Append(got, c))
                 ELSE IF c = "n" THEN PyStringBody(s, e + 2, q, Append(got, NL))
                 ELSE IF c = "t" THEN PyStringBody(s, e + 2, q, Append(got, TAB))
                 ELSE IF c = NL THEN PyStringBody(s, e + 2, q, got)
                 ELSE IF c \in OtherEscapes THEN [v |-> Unmodelled, i |-> e]
                 ELSE PyStringBody(s, e + 2, q, got \o <<BS, c>>)

\* one or more adjacent string literals, s[i] the opening quote of the first
RECURSIVE PyStrings(_, _, _, _)
PyStrings(s, i, ws, acc) ==
    IF StartsWithAt(s, i, <<s[i], s[i], s[i]>>) THEN [v |-> Unmodelled, i |-> i]
    ELSE LET r == PyStringBody(s, i + 1, s[i], <<>>)
         IN  IF PyFail(r.v) THEN r
             ELSE LET j == SkipWs(s, r.i, ws)
                      joined == acc \o r.v.s
                  IN  IF j <= Len(s) /\ s[j] \in {SQ, DQ}
                      THEN PyStrings(s, j, ws, joined)
                      ELSE [v |-> PyStr(joined), i |-> r.i]

\* a decimal integer literal at index i
PyNumber(s, i, sign) ==
    LET e == RunEnd(s, i, DigitChars)
        ds == SubSeq(s, i, e - 1)
    IN  IF e <= Len(s) /\ s[e] \in Letters \cup {"."} THEN [v |-> Unmodelled, i |-> e]
        ELSE IF Len(ds) > 1 /\ ds[1] = "0" /\ \E d \in 1..Len(ds) : ds[d] # "0"
        THEN [v |-> Raised, i |-> e]
        ELSE [v |-> PyInt(sign * StrToNat(ds)), i |-> e]

\* a character where Python needs an operator or a delimiter: a certain
\* SyntaxError if it can start no operator, outside the model otherwise
AfterExpression(c, i) ==
    IF c \in DigitChars \cup {SQ, DQ, "]", "}", ")", ":", "{", BS}
    THEN [v |-> Raised, i |-> i]
    ELSE [v |-> Unmodelled, i |-> i]

\* a dict display stores a value under a key: a key equal to an earlier one
\* keeps its place and takes the new value
DictSet(entries, key, val) ==
    IF \E n \in 1..Len(entries) : PyEqual(entries[n][1], key)
    THEN [n \in 1..Len(entries) |->
             IF PyEqual(entries[n][1], key) THEN <<entries[n][1], val>> ELSE entries[n]]
    ELSE Append(entries, <<key, val>>)

RECURSIVE PyExpr(_, _, _)
RECURSIVE PyListItems(_, _, _)
RECURSIVE PyDictItems(_, _, _)
\* an expression at index i (whitespace already skipped)
PyExpr(s, i, ws) ==
    IF i > Len(s) THEN [v |-> Raised, i |-> i]
    ELSE LET c == s[i]
         IN  IF c \in {SQ, DQ} THEN PyStrings(s, i, ws, <<>>)
             ELSE IF c \in Letters
             THEN LET e == RunEnd(s, i, Letters \cup DigitChars)
                      name == SubSeq(s, i, e - 1)
                  IN  IF e <= Len(s) /\ s[e] \in {SQ, DQ} THEN [v |-> Unmodelled, i |-> e]
                      ELSE IF name = PY_NONE THEN [v |-> PyNone, i |-> e]
                      ELSE IF name = PY_TRUE THEN [v |-> PyBool(TRUE), i |-> e]
                      ELSE IF name = PY_FALSE THEN [v |-> PyBool(FALSE), i |-> e]
                      ELSE [v |-> Unmodelled, i |-> e]
             ELSE IF c \in DigitChars THEN PyNumber(s, i, 1)
             ELSE IF c = "-"
             THEN LET j == SkipWs(s, i + 1, ws)
                  IN  IF j > Len(s) THEN [v |-> Raised, i |-> j]
                      ELSE IF s[j] \in DigitChars THEN PyNumber(s, j, -1)
                      ELSE [v |-> Unmodelled, i |-> j]
             ELSE IF c = "[" THEN PyListItems(s, SkipWs(s, i + 1, BracketWs), <<>>)
             ELSE IF c = "{" THEN PyDictItems(s, SkipWs(s, i + 1, BracketWs), <<>>)
             ELSE IF c \in {"]", "}", ")", ",", ":", BS} THEN [v |-> Raised, i |-> i]
             ELSE [v |-> Unmodelled, i |-> i]

\* the items of a list display, i at an item or at the closing bracket
PyListItems(s, i, items) ==
    IF i > Len(s) THEN [v |-> Raised, i |-> i]
    ELSE IF s[i] = "]" THEN [v |-> PyList(items), i |-> i + 1]
    ELSE LET r == PyExpr(s, i, BracketWs)
         IN  IF PyFail(r.v) THEN r
             ELSE LET j == SkipWs(s, r.i, BracketWs)
                  IN  IF j > Len(s) THEN [v |-> Raised, i |-> j]
                      ELSE IF s[j] = ","
                      THEN PyListItems(s, SkipWs(s, j + 1, BracketWs), Append(items, r.v))
                      ELSE IF s[j] = "]" THEN [v |-> PyList(Append(items, r.v)), i |-> j + 1]
                      ELSE AfterExpression(s[j], j)

\* the entries of a dict display, i at a key or at the closing brace; a
\* list or dict used as a key raises TypeError
PyDictItems(s, i, entries) ==
    IF i > Len(s) THEN [v |-> Raised, i |-> i]
    ELSE IF s[i] = "}" THEN [v |-> PyDict(entries), i |-> i + 1]
    ELSE LET kr == PyExpr(s, i, BracketWs)
         IN  IF PyFail(kr.v) THEN kr
             ELSE LET j == SkipWs(s, kr.i, BracketWs)
                  IN  IF j > Len(s) THEN [v |-> Raised, i |-> j]
                      ELSE IF s[j] \in {",", "}"} THEN [v |-> Unmodelled, i |-> j]
                      ELSE IF s[j] # ":" THEN AfterExpression(s[j], j)
                      ELSE LET vr == PyExpr(s, SkipWs(s, j + 1, BracketWs), BracketWs)
                           IN  IF PyFail(vr.v) THEN vr
                               ELSE LET m == SkipWs(s, vr.i, BracketWs)
                                        stored == DictSet(entries, kr.v, vr.v)
                                    IN  IF m > Len(s) THEN [v |-> Raised, i |-> m]
                                        ELSE IF kr.v.t \in {"list", "dict"}
                                        THEN [v |-> Raised, i |-> m]
                                        ELSE IF s[m] = ","
                                        THEN PyDictItems(s, SkipWs(s, m + 1, BracketWs), stored)
                                        ELSE IF s[m] = "}"
                                        THEN [v |-> PyDict(stored), i |-> m + 1]
                                        ELSE AfterExpression(s[m], m)

\* eval(content): leading blanks and blank lines dropped, one expression,
\* nothing after it but blanks and newlines (anything else on a later line
\* is a SyntaxError or an IndentationError)
eval(content) ==
    LET i0 == RunEnd(content, 1, TopWs)
        i1 == RunEnd(content, i0, {NL})
    IN  IF i1 > Len(content) THEN Raised
        ELSE IF content[i1] \in TopWs THEN Unmodelled
        ELSE LET r == PyExpr(content, i1, TopWs)
             IN  IF PyFail(r.v) THEN r.v
                 ELSE LET j == SkipWs(content, r.i, TopWs)
                      IN  IF j > Len(content) THEN r.v
                          ELSE IF content[j] = NL
                          THEN LET m == RunEnd(content, j, BracketWs)
                               IN  IF RunEnd(content, j, {NL}) > Len(content) THEN r.v
                                   ELSE IF m <= Len(content) /\ content[m] # "#" THEN Raised
                                   ELSE Unmodelled
                          ELSE AfterExpression(content[j], j).v

parse_vim_dict(content) ==
    eval(ConvertStrings(ReplaceVimTokens(JoinContinuationLines(content)), 1))

(***************************************************************************)
(* The values format_vim_value is given: null, booleans, integers,         *)
(* strings, and lists and maps of them up to two levels deep.              *)
(***************************************************************************)
MaxItems == 2

LitStrings ==
    {<<>>,
     <<"i", "t", SQ, "s">>,
     V_NULL,
     <<"a", DQ, BS>>,
     <<"x", NL, "y">>,
     <<DQ, NL, BS>>,
     [i \in 1..SimpleStringLimit - 1 |-> "a"],
     [i \in 1..SimpleStringLimit |-> "a"]}

LitAtoms ==
    {PyNone, PyBool(TRUE), PyBool(FALSE), PyInt(-3), PyInt(10)} \cup {PyStr(s) : s \in LitStrings}

LitKeys == {PyStr(<<"k">>), PyStr(<<"i", "d">>), PyStr(<<"a", NL, "b">>)}

SeqsUpTo(S, n) == UNION {[1..m -> S] : m \in 0..n}

LitLists(S) == {PyList(items) : items \in SeqsUpTo(S, MaxItems)}

LitDicts(S) ==
    {PyDict(entries) : entries \in
        {e \in SeqsUpTo(LitKeys \X S, MaxItems) :
            \A a, b \in 1..Len(e) : a # b => e[a][1] # e[b][1]}}

LitCollections == LitLists(LitAtoms) \cup LitDicts(LitAtoms)

LitValues ==
    LitAtoms \cup LitCollections
    \cup {PyList(<<x>>) : x \in LitCollections}
    \cup {PyDict(<< <<PyStr(<<"k">>), x>> >>) : x \in LitCollections}

(***************************************************************************)
(* SpecLit: every value of LitValues is serialized, then parsed back.      *)
(***************************************************************************)
InitLit ==
    /\ value \in LitValues
    /\ text = <<>>
    /\ parsed = PyNone
    /\ l_pc = "input"
    /\ maze = <<>>
    /\ IdleMaze /\ IdleSpies /\ IdleWalkIn /\ IdleB /\ IdleV /\ IdleLevel

\* text = format_vim_value(value)
FormatVimValue ==
    /\ l_pc = "input"
    /\ text' = format_vim_value(value, 0)
    /\ l_pc' = "formatted"
    /\ UNCHANGED <<value, parsed, mazeVars, spyVars, walkIn, bVars, vVars, levelVars>>

\* parsed = parse_vim_dict(text)
ParseVimDict ==
    /\ l_pc = "formatted"
    /\ parsed' = parse_vim_dict(text)
    /\ l_pc' = "parsed"
    /\ UNCHANGED <<value, text, mazeVars, spyVars, walkIn, bVars, vVars, levelVars>>

NextLit == FormatVimValue \/ ParseVimDict

SpecLit == InitLit /\ [][NextLit]_vars

(***************************************************************************)
(* SpecText: parse_vim_dict on hand-written documents: zero, one or two    *)
(* comment lines, then one literal: a single-quoted string made of up to   *)
(* MaxPieces pieces, a double-quoted string, a list or a map.              *)
(***************************************************************************)
MaxPieces == 3

\* what a single-quoted string is made of: a letter, a doubled apostrophe,
\* a backslash, a double quote, the word v:null
SpanPieces == {<<"a">>, <<SQ, SQ>>, <<BS>>, <<DQ>>, V_NULL}

TextLiterals ==
    {<<SQ>> \o Join(pieces, <<>>) \o <<SQ>> : pieces \in SeqsUpTo(SpanPieces, MaxPieces)}
    \cup {<<DQ, "x", DQ>>,
          <<"[", "1", ",", SP, SQ, "a", SQ, "]">>,
          <<"{", SQ, "k", SQ, ":", SP, "1", "}">>}

\* lines whose first non-blank character is a double quote
CommentLines == {<<DQ, SP, "c", NL>>, <<SP, DQ, "c", DQ, NL>>}

Documents ==
    {comments \o literal :
        comments \in {Join(lines, <<>>) : lines \in SeqsUpTo(CommentLines, 2)},
        literal \in TextLiterals}

InitText ==
    /\ text \in Documents
    /\ value = PyNone
    /\ parsed = PyNone
    /\ l_pc = "formatted"
    /\ maze = <<>>
    /\ IdleMaze /\ IdleSpies /\ IdleWalkIn /\ IdleB /\ IdleV /\ IdleLevel

NextText == ParseVimDict

SpecText == InitText /\ [][NextText]_vars

(***************************************************************************)
(* Properties of generate_maze.  The cells a spec covers are stated here   *)
(* from the YAML's meaning of the spec (1-indexed, inclusive ranges), not  *)
(* from the loops that paint them.                                         *)
(***************************************************************************)
R == config.dimensions[1]
C == config.dimensions[2]

WallCovers(w, r, c) ==
    IF w.type = "rect"
    THEN /\ w.rect[1] <= r /\ r < w.rect[1] + w.rect[3]
         /\ w.rect[2] <= c /\ c < w.rect[2] + w.rect[4]
    ELSE IF w.type = "hline"
    THEN r = w.line[1] /\ w.line[2] <= c /\ c <= w.line[3]
    ELSE c = w.line[1] /\ w.line[2] <= r /\ r <= w.line[3]

OpeningCovers(o, r, c) ==
    IF o.type = "point"
    THEN r = o.pos[1] /\ c = o.pos[2]
    ELSE IF o.type = "hline"
    THEN r = o.line[1] /\ o.line[2] <= c /\ c <= o.line[3]
    ELSE c = o.line[1] /\ o.line[2] <= r /\ r <= o.line[3]

Walled(r, c) == \E n \in 1..Len(config.walls) : WallCovers(config.walls[n], r, c)
Opened(r, c) == \E n \in 1..Len(config.openings) : OpeningCovers(config.openings[n], r, c)
IsExit(r, c) == config.exit = <<r, c>>
OnBorder(r, c) == r = 1 \/ r = R \/ c = 1 \/ c = C
Inside(r, c) == 1 <= r /\ r <= R /\ 1 <= c /\ c <= C

\* the positions around the grid a spec of the model can reach
Around == (-1..(MaxRows + MaxExt + 1)) \X (-1..(MaxCols + MaxExt + 1))
WallReachesOutside(w) == \E q \in Around : WallCovers(w, q[1], q[2]) /\ ~Inside(q[1], q[2])
OpeningReachesOutside(o) == \E q \in Around : OpeningCovers(o, q[1], q[2]) /\ ~Inside(q[1], q[2])
WallReachesInside(w) == \E q \in Around : WallCovers(w, q[1], q[2]) /\ Inside(q[1], q[2])
OpeningReachesInside(o) == \E q \in Around : OpeningCovers(o, q[1], q[2]) /\ Inside(q[1], q[2])

\* the grid has the cell <<r, c>>
HasCell(r, c) == r \in 1..Len(maze) /\ c \in 1..Len(maze[r])
Cell(r, c) == IF HasCell(r, c) THEN maze[r][c] ELSE "none"

\* C5: every border cell of the returned grid that no opening spec covers and
\* that is not the exit position holds the wall marker, whatever the wall specs
BorderInvariant ==
    m_pc = "done" =>
        \A r \in 1..R, c \in 1..C :
            (OnBorder(r, c) /\ ~Opened(r, c) /\ ~IsExit(r, c)) => Cell(r, c) = WALL_CHAR

\* C5 witness: a 3x3-or-larger grid with a wall spec over a border cell that stays
\* wall, while another border cell is opened
BorderWitness ==
    /\ m_pc = "done" /\ R = MaxRows /\ C = MaxCols
    /\ \E r \in 1..R, c \in 1..C :
           OnBorder(r, c) /\ Walled(r, c) /\ ~Opened(r, c) /\ ~IsExit(r, c)
           /\ Cell(r, c) = WALL_CHAR
    /\ \E r \in 1..R, c \in 1..C : OnBorder(r, c) /\ Opened(r, c) /\ Cell(r, c) = FLOOR_CHAR

\* the marker the layers (border and walls, then openings, then exit) leave on a cell
Layered(r, c) ==
    IF IsExit(r, c) THEN EXIT_MARK
    ELSE IF Opened(r, c) THEN FLOOR_CHAR
    ELSE IF OnBorder(r, c) \/ Walled(r, c) THEN WALL_CHAR
    ELSE FLOOR_CHAR

\* C6: walls, then openings, then exit: the exit cell holds the exit marker, any
\* other opened cell is floor, any other border or walled cell is wall, the rest floor
LayerPrecedence ==
    m_pc = "done" => \A r \in 1..R, c \in 1..C : Cell(r, c) = Layered(r, c)

\* C6 witness: the exit lies on a cell that a wall spec and an opening spec both
\* cover, and another cell is covered by a wall spec and an opening spec
LayerWitness ==
    /\ m_pc = "done"
    /\ \E r \in 1..R, c \in 1..C :
           IsExit(r, c) /\ Opened(r, c) /\ Walled(r, c) /\ Cell(r, c) = EXIT_MARK
    /\ \E r \in 1..R, c \in 1..C :
           ~IsExit(r, c) /\ Opened(r, c) /\ Walled(r, c) /\ ~OnBorder(r, c)
           /\ Cell(r, c) = FLOOR_CHAR

\* C7: the returned grid has exactly R rows of exactly C characters
GridShape ==
    m_pc = "done" => Len(maze) = R /\ \A r \in 1..Len(maze) : Len(maze[r]) = C

\* C7 witness: a grid returned for a wall spec and an opening spec that both reach
\* outside the grid
GridShapeWitness ==
    /\ m_pc = "done" /\ Len(maze) = MaxRows
    /\ \E n \in 1..Len(config.walls) : WallReachesOutside(config.walls[n])
    /\ \E n \in 1..Len(config.openings) : OpeningReachesOutside(config.openings[n])

\* C8: generate_maze never raises; a spec that reaches outside the grid still
\* paints each of its in-bounds cells, changes no cell it does not cover, and an
\* out-of-bounds exit leaves no exit marker
Clamping ==
    /\ m_pc # "raised"
    /\ m_pc = "done" =>
        /\ \A n \in 1..Len(config.walls) :
               WallReachesOutside(config.walls[n]) =>
                   \A r \in 1..R, c \in 1..C :
                       (WallCovers(config.walls[n], r, c) /\ ~Opened(r, c) /\ ~IsExit(r, c))
                       => Cell(r, c) = WALL_CHAR
        /\ \A n \in 1..Len(config.openings) :
               OpeningReachesOutside(config.openings[n]) =>
                   \A r \in 1..R, c \in 1..C :
                       (OpeningCovers(config.openings[n], r, c) /\ ~IsExit(r, c))
                       => Cell(r, c) = FLOOR_CHAR
        /\ \A r \in 1..R, c \in 1..C :
               (~Walled(r, c) /\ ~Opened(r, c) /\ ~IsExit(r, c))
               => Cell(r, c) = (IF OnBorder(r, c) THEN WALL_CHAR ELSE FLOOR_CHAR)
        /\ (config.exit # Missing /\ ~Inside(config.exit[1], config.exit[2]))
               => \A r \in 1..R, c \in 1..C : Cell(r, c) # EXIT_MARK

\* C8 witness: a wall spec and an opening spec that each cover cells inside and
\* outside the grid, with an exit position outside the grid
ClampingWitness ==
    /\ m_pc = "done" /\ R = MaxRows /\ C = MaxCols
    /\ config.exit # Missing /\ ~Inside(config.exit[1], config.exit[2])
    /\ \E n \in 1..Len(config.walls) :
           WallReachesOutside(config.walls[n]) /\ WallReachesInside(config.walls[n])
    /\ \E n \in 1..Len(config.openings) :
           OpeningReachesOutside(config.openings[n]) /\ OpeningReachesInside(config.openings[n])

(***************************************************************************)
(* Properties of the Route Walkers (validate_route, validate_spy).         *)
(***************************************************************************)
\* q is a cell of the grid that does not hold the wall marker
FloorCell(q) ==
    /\ Len(q) = 2
    /\ q[1] \in 1..Len(maze)
    /\ q[2] \in 1..Len(maze[q[1]])
    /\ maze[q[1]][q[2]] # WALL_CHAR

\* the 1-indexed position of validate_route's 0-indexed pos
b_pos1 == <<b_pos[1] + 1, b_pos[2] + 1>>

\* C2: a walker that returns no violation was given a spawn on a non-wall cell of
\* the grid, stepped only on non-wall cells of the grid, and ended on the spawn
ClosureSoundness ==
    /\ (b_pc = "done" /\ b_errors = <<>>) =>
           /\ FloorCell(spawn)
           /\ \A q \in b_seen : FloorCell(q)
           /\ b_pos1 = spawn
    /\ (v_pc = "done" /\ v_errors = <<>>) =>
           /\ FloorCell(spawn)
           /\ \A q \in v_seen : FloorCell(q)
           /\ v_pos = spawn

\* C2 witness: both walkers accept a two-vector route that leaves the spawn and
\* comes back to it
ClosureWitness ==
    /\ b_pc = "done" /\ v_pc = "done"
    /\ b_errors = <<>> /\ v_errors = <<>>
    /\ Len(route) = 2
    /\ Cardinality(b_seen) = 2 /\ v_seen = b_seen

\* C4: an empty route is always a violation, for either walker and every spawn
EmptyRouteIsViolation ==
    route = <<>> =>
        /\ b_pc = "done" => b_errors # <<>>
        /\ v_pc = "done" => v_errors # <<>>

\* the kinds of violation each walker has for a bad spawn and for a bad step
HasKind(found, kinds) == \E n \in 1..Len(found) : found[n].kind \in kinds
SpawnOutside ==
    \/ spawn[1] < 1 \/ spawn[1] > Len(maze)
    \/ spawn[2] < 1 \/ spawn[2] > Len(maze[1])

\* C19: a spawn outside the grid or on a wall cell gives a spawn violation (out
\* of bounds, respectively inside a wall) in the walker's result, whatever the
\* route, the empty route included
SpawnViolationReported ==
    /\ (b_pc = "done" /\ SpawnOutside) => HasKind(b_errors, {"Spawn out of bounds"})
    /\ (b_pc = "done" /\ ~SpawnOutside /\ ~FloorCell(spawn))
           => HasKind(b_errors, {"Spawn is inside a wall"})
    /\ (v_pc = "done" /\ SpawnOutside)
           => HasKind(v_errors, {"spawn line out of bounds", "spawn col out of bounds"})
    /\ (v_pc = "done" /\ ~SpawnOutside /\ ~FloorCell(spawn))
           => HasKind(v_errors, {"spawn is on a wall"})

\* C19 witness: both walkers report the spawn on a wall for the empty route
SpawnViolationWitness ==
    /\ b_pc = "done" /\ v_pc = "done"
    /\ route = <<>>
    /\ ~SpawnOutside /\ maze[spawn[1]][spawn[2]] = WALL_CHAR
    /\ HasKind(b_errors, {"Spawn is inside a wall"})
    /\ HasKind(v_errors, {"spawn is on a wall"})

\* C20: once a step lands outside the grid or on a wall the walk of the spy
\* stops there: the violation of that step is the last one of the result (no
\* second step violation, no does-not-return violation) and the position
\* stays where the step landed (no later vector is walked)
AbortOnFirstRouteViolation ==
    /\ \A n \in 1..Len(b_errors) :
           b_errors[n].kind \in {"Route goes out of bounds", "Route hits wall"}
               => (n = Len(b_errors) /\ b_pos1 = b_errors[n].at)
    /\ \A n \in 1..Len(v_errors) :
           v_errors[n].kind \in {"route goes out of bounds", "route hits wall"}
               => (n = Len(v_errors) /\ v_pos = v_errors[n].at)

\* C20, the part the code keeps: validate_spy stops at its first step violation
ValidateSpyAbortsOnFirstViolation ==
    \A n \in 1..Len(v_errors) :
        v_errors[n].kind \in {"route goes out of bounds", "route hits wall"}
            => (n = Len(v_errors) /\ v_pos = v_errors[n].at /\ v_pc = "done")

(***************************************************************************)
(* Properties of the Patrol Route Planner (generate_patrol_route,          *)
(* get_spawn_pos), read where generate_spies_vim holds the planned spawn   *)
(* and route of the spy in hand.                                           *)
(***************************************************************************)
Planned == g_pc = "validating"
Spy == spies_config[k]
IsBackAndForth == Spy.pattern \in {"horizontal", "vertical"}
\* the varying axis of a back-and-forth pattern and its two directions
Axis == IF Spy.pattern = "horizontal" THEN 2 ELSE 1
Inc == IF Spy.pattern = "horizontal" THEN "right" ELSE "down"
Dec == IF Spy.pattern = "horizontal" THEN "left" ELSE "up"
Opposite(d) ==
    IF d = "right" THEN "left" ELSE IF d = "left" THEN "right"
    ELSE IF d = "down" THEN "up" ELSE "down"

\* two positions share a row or a column
Aligned(p, q) == p[1] = q[1] \/ p[2] = q[2]

\* the pattern is one a patrol can walk along one axis at a time
AxisAligned(spy) ==
    IF spy.pattern = "horizontal" THEN spy.endpoints[1][1] = spy.endpoints[2][1]
    ELSE IF spy.pattern = "vertical" THEN spy.endpoints[1][2] = spy.endpoints[2][2]
    ELSE \A n \in 1..Len(spy.waypoints) :
             Aligned(spy.waypoints[n], spy.waypoints[(n % Len(spy.waypoints)) + 1])

\* C3: for an axis-aligned pattern without a spawn field, the planned route walked
\* from the planned spawn ends on that spawn and gives no violation
PlannedRouteClosed ==
    (Planned /\ b_pc = "done" /\ Spy.spawn = Missing /\ AxisAligned(Spy))
        => (b_errors = <<>> /\ b_pos1 = spawn)

\* C3, the part the code keeps: the same for the back-and-forth patterns and for
\* the loops walked in array order (direction cw or absent)
PlannedRouteClosedInArrayOrder ==
    (Planned /\ b_pc = "done" /\ Spy.spawn = Missing /\ AxisAligned(Spy)
        /\ (Spy.pattern = "loop" => Spy.direction # "ccw"))
        => (b_errors = <<>> /\ b_pos1 = spawn)

\* C9: a back-and-forth pattern gives two vectors, to endpoints[1] and back to
\* endpoints[0]; the first goes right/down only when endpoints[1] is strictly
\* greater on the varying axis, left/up otherwise; the second is the opposite
BackAndForthVectors ==
    (Planned /\ IsBackAndForth) =>
        /\ Len(route) = 2
        /\ route[1].end = Spy.endpoints[2]
        /\ route[2].end = Spy.endpoints[1]
        /\ route[1].dir = (IF Spy.endpoints[2][Axis] > Spy.endpoints[1][Axis] THEN Inc ELSE Dec)
        /\ route[2].dir = Opposite(route[1].dir)

\* C9 witness: a horizontal pattern whose endpoints tie on the column: first leg left
BackAndForthWitness ==
    /\ Planned /\ Spy.pattern = "horizontal"
    /\ Spy.endpoints[1][2] = Spy.endpoints[2][2]
    /\ route[1].dir = "left" /\ route[2].dir = "right"

\* the endpoint of a back-and-forth pattern that is later / earlier on the varying axis
LaterCoord == IF Spy.endpoints[1][Axis] > Spy.endpoints[2][Axis]
              THEN Spy.endpoints[1][Axis] ELSE Spy.endpoints[2][Axis]
EarlierCoord == IF Spy.endpoints[1][Axis] > Spy.endpoints[2][Axis]
                THEN Spy.endpoints[2][Axis] ELSE Spy.endpoints[1][Axis]

\* C10 as stated: the first leg is always right/down, toward the later endpoint,
\* and the second leg left/up, toward the earlier one
FirstLegAlwaysIncreasing ==
    (Planned /\ IsBackAndForth) =>
        /\ route[1].dir = Inc /\ route[1].end[Axis] = LaterCoord
        /\ route[2].dir = Dec /\ route[2].end[Axis] = EarlierCoord

\* C10 amended: the first leg is right/down toward the later endpoint only when
\* the later endpoint is given second; otherwise it is left/up toward the earlier
\* endpoint and the second leg goes right/down back to the later one
FirstLegTowardSecondEndpoint ==
    (Planned /\ IsBackAndForth) =>
        IF Spy.endpoints[2][Axis] > Spy.endpoints[1][Axis]
        THEN /\ route[1].dir = Inc /\ route[1].end[Axis] = LaterCoord
             /\ route[2].dir = Dec /\ route[2].end[Axis] = EarlierCoord
        ELSE /\ route[1].dir = Dec /\ route[1].end[Axis] = EarlierCoord
             /\ route[2].dir = Inc /\ route[2].end[Axis] = LaterCoord

\* C10 witness: a vertical pattern given from the lower row up: first leg up
FirstLegWitness ==
    /\ Planned /\ Spy.pattern = "vertical"
    /\ Spy.endpoints[1][1] > Spy.endpoints[2][1]
    /\ route[1].dir = "up" /\ route[1].end = Spy.endpoints[2]
    /\ route[2].dir = "down" /\ route[2].end = Spy.endpoints[1]

\* the waypoint of a loop pattern that is m-th (1-based) in the walked order:
\* array order for cw or no direction, the order read backwards for ccw
Walked(m) ==
    IF Spy.direction = "ccw" THEN Spy.waypoints[Len(Spy.waypoints) + 1 - m]
    ELSE Spy.waypoints[m]

\* C11: a loop pattern of n waypoints gives n vectors; the i-th vector (from 0)
\* ends at waypoint (i+1) mod n of the walked order, which is the array order
\* for cw and for a missing direction and the reversed order for ccw; the last
\* vector ends at the first waypoint of the walked order
LoopVisitsWaypointsInOrder ==
    (Planned /\ Spy.pattern = "loop") =>
        /\ Len(route) = Len(Spy.waypoints)
        /\ \A n \in 1..Len(route) : route[n].end = Walked((n % Len(route)) + 1)
        /\ Len(route) > 0 => route[Len(route)].end = Walked(1)

\* C11 witness: a ccw loop of three distinct waypoints, walked backwards
LoopOrderWitness ==
    /\ Planned /\ Spy.pattern = "loop" /\ Spy.direction = "ccw"
    /\ Len(Spy.waypoints) = 3
    /\ Cardinality({Spy.waypoints[n] : n \in 1..3}) = 3
    /\ route[1].end = Spy.waypoints[2]
    /\ route[2].end = Spy.waypoints[1]
    /\ route[3].end = Spy.waypoints[3]

\* the waypoint the n-th vector of a loop route starts from: the end of the
\* vector before it, the last vector's end for the first
LegStart(n) == IF n = 1 THEN route[Len(route)].end ELSE route[n - 1].end

\* C12: each loop vector goes up when its end is on a smaller row than its
\* start, down when on a greater row; only on equal rows is the column
\* compared: left for a smaller column, right otherwise; so a vector between
\* waypoints that differ in both axes is up or down
LoopDirectionRowsFirst ==
    (Planned /\ Spy.pattern = "loop") =>
        \A n \in 1..Len(route) :
            LET from == LegStart(n)
                to == route[n].end
            IN  /\ to[1] < from[1] => route[n].dir = "up"
                /\ to[1] > from[1] => route[n].dir = "down"
                /\ (to[1] = from[1] /\ to[2] < from[2]) => route[n].dir = "left"
                /\ (to[1] = from[1] /\ to[2] >= from[2]) => route[n].dir = "right"
                /\ (to[1] # from[1] /\ to[2] # from[2]) => route[n].dir \in {"up", "down"}

\* C12 witness: a loop with a diagonal pair of waypoints, its vector up or down
LoopDirectionWitness ==
    /\ Planned /\ Spy.pattern = "loop" /\ Len(route) >= 2
    /\ \E n \in 1..Len(route) :
           /\ route[n].end[1] # LegStart(n)[1]
           /\ route[n].end[2] # LegStart(n)[2]
           /\ route[n].dir \in {"up", "down"}

\* the spawn the variable held before spy k was taken in hand
SpawnBefore == IF k = 1 THEN Missing ELSE spies_data[k - 1].spawn

\* C13: get_spawn_pos returns the spawn field when there is one, whatever the
\* pattern; without one it returns endpoints[0] for horizontal and vertical and
\* waypoints[0] for loop; for any other pattern without a spawn field it raises
\* and no position is assigned
SpawnDerivation ==
    /\ (g_pc \in {"validating", "raised_route"} /\ Spy.spawn # Missing) => spawn = Spy.spawn
    /\ (Planned /\ Spy.spawn = Missing /\ IsBackAndForth) => spawn = Spy.endpoints[1]
    /\ (Planned /\ Spy.spawn = Missing /\ Spy.pattern = "loop") => spawn = Spy.waypoints[1]
    /\ (k <= Len(spies_config) /\ g_pc # "loop"
            /\ Spy.spawn = Missing /\ Spy.pattern \notin {"horizontal", "vertical", "loop"})
        => (g_pc = "raised_spawn" /\ spawn = SpawnBefore)

\* C13 witness: a loop whose spawn field is not its first waypoint
SpawnDerivationWitness ==
    /\ Planned /\ Spy.pattern = "loop" /\ Spy.spawn # Missing
    /\ Len(Spy.waypoints) > 0 /\ Spy.waypoints[1] # Spy.spawn
    /\ spawn = Spy.spawn

\* C14: generate_patrol_route raises for every pattern other than horizontal,
\* vertical and loop and gives no route; generate_spies_vim then ends at once:
\* it returns neither the spies text nor the violations collected so far
UnknownPatternRaises ==
    /\ Planned => Spy.pattern \in {"horizontal", "vertical", "loop"}
    /\ g_pc = "raised_route" =>
           /\ Spy.pattern \notin {"horizontal", "vertical", "loop"}
           /\ route = (IF k = 1 THEN <<>> ELSE spies_data[k - 1].route)
    /\ (\E n \in 1..Len(spies_config) :
            spies_config[n].pattern \notin {"horizontal", "vertical", "loop"})
        => (g_pc # "done" /\ spies_vim = <<>>)

\* C14 witness: the second spy has an unknown pattern and a spawn field; the
\* call ends in generate_patrol_route's error with violations of the first spy
\* in hand
UnknownPatternWitness ==
    /\ g_pc = "raised_route" /\ k = 2
    /\ Spy.spawn # Missing
    /\ all_errors # <<>>
    /\ spies_vim = <<>>

(***************************************************************************)
(* Properties of the serializer and the parser.                            *)
(***************************************************************************)
\* the strings anywhere in a value, keys included
RECURSIVE StringsOf(_)
StringsOf(v) ==
    IF v.t = "str" THEN {v.s}
    ELSE IF v.t = "list" THEN UNION {StringsOf(v.items[i]) : i \in 1..Len(v.items)}
    ELSE IF v.t = "dict"
    THEN UNION {StringsOf(v.entries[i][1]) \cup StringsOf(v.entries[i][2]) : i \in 1..Len(v.entries)}
    ELSE {}

HasToken(s) ==
    \E i \in 1..Len(s) :
        StartsWithAt(s, i, V_NULL) \/ StartsWithAt(s, i, V_TRUE) \/ StartsWithAt(s, i, V_FALSE)

RECURSIVE KeysOf(_)
KeysOf(v) ==
    IF v.t = "list" THEN UNION {KeysOf(v.items[i]) : i \in 1..Len(v.items)}
    ELSE IF v.t = "dict"
    THEN UNION {{v.entries[i][1].s} \cup KeysOf(v.entries[i][2]) : i \in 1..Len(v.entries)}
    ELSE {}

\* the text is one single-quoted span: an apostrophe, a content whose
\* apostrophes all come in pairs, an apostrophe
SpanContent == SubSeq(text, 2, Len(text) - 1)
IsSingleQuotedSpan ==
    /\ Len(text) >= 2
    /\ text[1] = SQ /\ text[Len(text)] = SQ
    /\ ~Contains(Replace(SpanContent, <<SQ, SQ>>, <<>>), SQ)

\* C15: a single-quoted span ends at the first apostrophe not followed by
\* another; each '' in it gives one apostrophe and every other character,
\* backslash and double quote included, is taken as it is: the parsed string
\* is the span's content with each '' replaced by '
SingleQuotedSpanLiteral ==
    (l_pc = "parsed" /\ IsSingleQuotedSpan)
        => parsed = PyStr(Replace(SpanContent, <<SQ, SQ>>, <<SQ>>))

\* C15, the part the code keeps: the same for the spans that hold none of the
\* words v:null, v:true, v:false
SingleQuotedSpanWithoutTokens ==
    (l_pc = "parsed" /\ IsSingleQuotedSpan /\ ~HasToken(SpanContent))
        => parsed = PyStr(Replace(SpanContent, <<SQ, SQ>>, <<SQ>>))

\* the text without its leading comment lines
RECURSIVE WithoutComments(_)
WithoutComments(doc) ==
    LET first == RunEnd(doc, 1, {SP, TAB})
        eol == FirstIn(doc, 1, {NL})
    IN  IF first <= Len(doc) /\ doc[first] = DQ /\ eol <= Len(doc)
        THEN WithoutComments(SubSeq(doc, eol + 1, Len(doc)))
        ELSE doc

\* C16: leading comment lines are ignored: comment lines followed by a literal
\* parse to the value the literal alone parses to
CommentLinesIgnored ==
    (l_pc = "parsed" /\ ~PyFail(parse_vim_dict(WithoutComments(text))))
        => parsed = parse_vim_dict(WithoutComments(text))

\* one character of a string as the double-quoted / the single-quoted form
\* writes it
InDoubleQuotes(c) ==
    IF c = BS THEN <<BS, BS>>
    ELSE IF c = DQ THEN <<BS, DQ>>
    ELSE IF c = NL THEN <<BS, "n">>
    ELSE <<c>>
InSingleQuotes(c) == IF c = SQ THEN <<SQ, SQ>> ELSE <<c>>

\* C17: a string with a newline is rendered in double quotes, each backslash
\* doubled, each double quote preceded by a backslash, each newline written as
\* backslash-n (the result of escaping backslashes first, then double quotes,
\* then newlines), so that the text holds no raw newline; any other string is
\* rendered in single quotes with each apostrophe doubled and nothing else changed
StringRendering ==
    (l_pc \in {"formatted", "parsed"} /\ value.t = "str") =>
        IF Contains(value.s, NL)
        THEN /\ text = <<DQ>> \o Join([n \in 1..Len(value.s) |-> InDoubleQuotes(value.s[n])], <<>>)
                       \o <<DQ>>
             /\ ~Contains(text, NL)
        ELSE text = <<SQ>> \o Join([n \in 1..Len(value.s) |-> InSingleQuotes(value.s[n])], <<>>)
                    \o <<SQ>>

\* C17 witness: the string double-quote, newline, backslash in double quotes
StringRenderingWitness ==
    /\ l_pc = "formatted"
    /\ value = PyStr(<<DQ, NL, BS>>)
    /\ text = <<DQ, BS, DQ, BS, "n", BS, BS, DQ>>

\* C1: for every value built from null, booleans, integers, strings, lists
\* and string-keyed maps whose keys hold no apostrophe, parsing the text
\* format_vim_value gives for it yields a value equal to it.
RoundTrip == l_pc = "parsed" => PyEqual(parsed, value)

\* the evaluation of the parsed text never leaves the modelled literals
EvalModelled == parsed.t # "unmodelled"

\* the round trip does hold for the values none of whose strings holds a
\* v:null / v:true / v:false token, none of whose multi-line strings ends
\* in a backslash, and none of whose keys holds a newline
RoundTripOfPlainValues ==
    (/\ l_pc = "parsed"
     /\ \A s \in StringsOf(value) :
            /\ ~HasToken(s)
            /\ ~(Contains(s, NL) /\ s[Len(s)] = BS)
     /\ \A key \in KeysOf(value) : ~Contains(key, NL))
    => PyEqual(parsed, value)

(***************************************************************************)
(* validate_level: the cursor checks.                                      *)
(***************************************************************************)
\* the function got past loading meta.vim and maze.txt
LevelChecked == lv_pc \in {"spies", "spy", "done"}

\* the field is absent from the metadata, its line is outside 1..rows, its
\* column outside 1..cols (the longest line), or its cell holds the wall marker
CursorAtFault(name) ==
    \/ name \notin DOMAIN meta
    \/ meta[name][1] < 1 \/ meta[name][1] > Len(maze)
    \/ meta[name][2] < 1 \/ (\A r \in 1..Len(maze) : meta[name][2] > Len(maze[r]))
    \/ /\ meta[name][2] <= Len(maze[meta[name][1]])
       /\ maze[meta[name][1]][meta[name][2]] = WALL_CHAR

CursorReported(name) == \E n \in 1..Len(errors) : errors[n].id = name

\* C18: once the files are loaded, validate_level reports a violation for
\* start_cursor exactly when that field is absent, out of bounds or on a wall
\* cell, and likewise for exit_cursor, whatever the other cursor is
CursorViolationsReported ==
    LevelChecked =>
        \A name \in {"start_cursor", "exit_cursor"} :
            CursorReported(name) <=> CursorAtFault(name)

\* C18 witness: validate_level returned; start_cursor is absent and exit_cursor
\* is on the wall cell, and each has its violation
CursorViolationsWitness ==
    /\ lv_pc = "done"
    /\ "start_cursor" \notin DOMAIN meta
    /\ "exit_cursor" \in DOMAIN meta
    /\ meta["exit_cursor"] = <<1, 2>>
    /\ maze # <<>>
    /\ \E n \in 1..Len(errors) :
           errors[n].id = "start_cursor" /\ errors[n].kind = "missing"
    /\ \E n \in 1..Len(errors) :
           errors[n].id = "exit_cursor" /\ errors[n].kind = "is on a wall"

(***************************************************************************)
(* The walkers on a route vector with an unknown direction.                *)
(***************************************************************************)
\* validate_route / validate_spy is about to walk a vector whose direction is
\* none of the four and whose end is not the position it stands on
BAtUnknownDirection ==
    /\ b_pc = "walk" /\ b_i <= Len(route)
    /\ route[b_i].dir \notin Directions
    /\ b_pos # <<route[b_i].end[1] - 1, route[b_i].end[2] - 1>>
VAtUnknownDirection ==
    /\ v_pc = "walk" /\ v_i <= Len(route)
    /\ route[v_i].dir \notin Directions
    /\ v_pos # route[v_i].end

\* C21: a vector with an unknown direction whose end differs from the position
\* makes the walker record an invalid-direction violation and return: from
\* such a state either walker comes to its return with that violation
UnknownDirectionAborts ==
    /\ [](BAtUnknownDirection => <>(b_pc = "done" /\ HasKind(b_errors, {"invalid direction"})))
    /\ [](VAtUnknownDirection => <>(v_pc = "done" /\ HasKind(v_errors, {"invalid direction"})))

\* C21, the part the code keeps: validate_spy returns with the violation
ValidateSpyUnknownDirectionAborts ==
    [](VAtUnknownDirection => <>(v_pc = "done" /\ HasKind(v_errors, {"invalid direction"})))

(***************************************************************************)
(* The walkers after a spawn violation.                                    *)
(***************************************************************************)
\* the first vector asks for at least one step in a known direction
FirstVectorSteps ==
    /\ route # <<>>
    /\ route[1].dir \in Directions
    /\ route[1].end # spawn

\* the cell (1-indexed) the first step from the spawn lands on
FirstLanding == Moved(spawn, route[1].dir)

FirstLandingBlocked ==
    \/ FirstLanding[1] < 1 \/ FirstLanding[1] > Len(maze)
    \/ FirstLanding[2] < 1 \/ FirstLanding[2] > Len(maze[1])
    \/ maze[FirstLanding[1]][FirstLanding[2]] = WALL_CHAR

\* validate_route went on after a spawn violation: the first step was taken
\* from the spawn and its violation, if any, is in the same result
RouteWalkedAfterSpawnViolation ==
    (b_pc = "done" /\ FirstVectorSteps
        /\ HasKind(b_errors, {"Spawn out of bounds", "Spawn is inside a wall"}))
    => /\ FirstLanding \in b_seen
       /\ FirstLandingBlocked =>
              \E n \in 1..Len(b_errors) :
                  /\ b_errors[n].kind \in {"Route goes out of bounds", "Route hits wall"}
                  /\ b_errors[n].at = FirstLanding

\* the same for validate_spy after the violations of `kinds`
SpyWalkedAfter(kinds) ==
    (v_pc = "done" /\ FirstVectorSteps /\ HasKind(v_errors, kinds))
    => /\ FirstLanding \in v_seen
       /\ FirstLandingBlocked =>
              \E n \in 1..Len(v_errors) :
                  /\ v_errors[n].kind \in {"route goes out of bounds", "route hits wall"}
                  /\ v_errors[n].at = FirstLanding

\* C22: a spawn violation (out of bounds, on a wall) does not stop the
\* validation of the spy: either walker still walks the route from the spawn
\* and adds the route violations it finds to the same result
CollectAllAtTopLevel ==
    /\ RouteWalkedAfterSpawnViolation
    /\ SpyWalkedAfter({"spawn line out of bounds", "spawn col out of bounds",
                       "spawn is on a wall"})

\* C22, the part the code keeps: validate_route always goes on, validate_spy
\* goes on after a spawn on a wall
CollectAllButSpawnOutside ==
    /\ RouteWalkedAfterSpawnViolation
    /\ SpyWalkedAfter({"spawn is on a wall"})

(***************************************************************************)
(* generate_spies_vim over several spies.                                  *)
(***************************************************************************)
\* the ids of the first n spies of the input
IdsUpTo(n) == {spies_config[j].id : j \in 1..n}

\* the entry of the emitted list for spy n is that spy: its id, the spawn of
\* get_spawn_pos, the route of generate_patrol_route, its speed or the default
EmittedSpy(n) ==
    LET spy == spies_config[n]
        entry == spies_vim[4][n]
    IN /\ entry.id = spy.id
       /\ entry.spawn = get_spawn_pos(spy)
       /\ entry.route = generate_patrol_route(spy)
       /\ entry.speed = (IF spy.speed = NoSpeed THEN DefaultSpeed ELSE spy.speed)

\* C23: generate_spies_vim validates every spy in input order whatever the
\* earlier spies gave: after each spy the violation list is what it was before,
\* all of earlier spies, followed by the walker's result for this spy, every
\* entry under this spy's id; the text returned holds every spy of the input
EverySpyValidatedInOrder ==
    /\ b_pc = "returned" =>
           LET before == Len(all_errors) - Len(b_errors)
           IN /\ before >= 0
              /\ \A n \in 1..Len(b_errors) :
                     /\ all_errors[before + n] = b_errors[n]
                     /\ b_errors[n].id = spies_config[k - 1].id
              /\ \A n \in 1..before : all_errors[n].id \in IdsUpTo(k - 2)
    /\ g_pc = "done" =>
           /\ Len(spies_vim[4]) = Len(spies_config)
           /\ \A n \in 1..Len(spies_config) : EmittedSpy(n)

\* C23 witness: two spies, each with violations; the call returned the
\* violations of the first followed by those of the second, and both spies
EverySpyValidatedWitness ==
    /\ g_pc = "done"
    /\ Len(spies_config) = 2
    /\ Len(spies_vim[4]) = 2
    /\ \E m \in 1..Len(all_errors) :
           /\ m < Len(all_errors)
           /\ \A n \in 1..m : all_errors[n].id = spies_config[1].id
           /\ \A n \in (m + 1)..Len(all_errors) : all_errors[n].id = spies_config[2].id

(***************************************************************************)
(* format_vim_value: the layout of lists and maps.                         *)
(***************************************************************************)
\* the serializer has run
Formatted == l_pc \in {"formatted", "parsed"}

\* one line: the items joined by ", " between the brackets
OneLine(open, items, close) == <<open>> \o Join(items, <<",", SP>>) \o <<close>>

\* one item per line, each indented two spaces deeper than `indent` and followed
\* by a comma, the closing bracket at `indent`
RECURSIVE ItemLines(_, _)
ItemLines(items, indent) ==
    IF items = <<>> THEN <<>>
    ELSE Spaces(indent + 2) \o items[1] \o <<",", NL>> \o ItemLines(Tail(items), indent)
OnePerLine(open, items, close, indent) ==
    <<open, NL>> \o ItemLines(items, indent) \o Spaces(indent) \o <<close>>

\* a number, a boolean, or a string of fewer than 40 characters without newline
ShortItem(v) ==
    \/ v.t \in {"int", "bool"}
    \/ v.t = "str" /\ Len(v.s) < 40 /\ \A i \in 1..Len(v.s) : v.s[i] # NL

\* the text the list v has at `indent`, its items rendered two deeper
ListLayout(v, indent) ==
    LET items == [i \in 1..Len(v.items) |-> format_vim_value(v.items[i], indent + 2)]
    IN IF v.items = <<>> THEN <<"[", "]">>
       ELSE IF \A i \in 1..Len(v.items) : ShortItem(v.items[i])
       THEN OneLine("[", items, "]")
       ELSE OnePerLine("[", items, "]", indent)

\* the collections directly inside the collection v
Inner(v) ==
    IF v.t = "list" THEN {v.items[i] : i \in 1..Len(v.items)}
    ELSE IF v.t = "dict" THEN {v.entries[i][2] : i \in 1..Len(v.entries)}
    ELSE {}

\* C24: the empty list is []; a list whose items are all numbers, booleans or
\* strings under 40 characters without newline is on one line, items joined by
\* ", "; any other list has one item per line, two spaces deeper than the
\* enclosing indent, each followed by a comma, the closing bracket at the
\* enclosing indent (checked at indent 0, and at indent 2 for an inner list)
ListLayoutOfFormat ==
    Formatted =>
        /\ value.t = "list" => text = ListLayout(value, 0)
        /\ \A x \in Inner(value) :
               x.t = "list" => format_vim_value(x, 2) = ListLayout(x, 2)

\* C24 witness: a list of one inner list that holds a null: both are laid out
\* one item per line, the inner items at indent 4
ListLayoutWitness ==
    /\ Formatted
    /\ value = PyList(<<PyList(<<PyNone, PyInt(10)>>)>>)
    /\ text = <<"[", NL>> \o Spaces(2) \o <<"[", NL>>
                  \o Spaces(4) \o V_NULL \o <<",", NL>>
                  \o Spaces(4) \o <<"1", "0", ",", NL>>
                  \o Spaces(2) \o <<"]", ",", NL, "]">>

\* the rendered entries of the map v at `indent`: 'key': value, the value
\* rendered two deeper
Entries(v, indent) ==
    [i \in 1..Len(v.entries) |->
        <<SQ>> \o KeyText(v.entries[i][1]) \o <<SQ, ":", SP>>
        \o format_vim_value(v.entries[i][2], indent + 2)]

\* the characters of all the rendered entries, counted one by one
TotalLength(items) ==
    Cardinality(UNION {{i} \X (1..Len(items[i])) : i \in 1..Len(items)})

\* the text the map v has at `indent`
MapLayout(v, indent) ==
    LET items == Entries(v, indent)
    IN IF v.entries = <<>> THEN <<"{", "}">>
       ELSE IF /\ TotalLength(items) < 60
               /\ \A i \in 1..Len(items) : \A j \in 1..Len(items[i]) : items[i][j] # NL
       THEN OneLine("{", items, "}")
       ELSE OnePerLine("{", items, "}", indent)

\* C25: the empty map is {}; a map is rendered entry by entry in the order of
\* its keys as 'key': value, on one line joined by ", " when the rendered
\* entries sum to fewer than 60 characters and none holds a newline, otherwise
\* one entry per line two spaces deeper than the enclosing indent, each followed
\* by a comma, the closing brace at the enclosing indent; an inner collection is
\* rendered at the parent's indent plus 2
MapLayoutOfFormat ==
    Formatted =>
        /\ value.t = "dict" => text = MapLayout(value, 0)
        /\ \A x \in Inner(value) :
               x.t = "dict" => format_vim_value(x, 2) = MapLayout(x, 2)

\* C25 witness: a map of one inner map whose two entries sum to 60 characters:
\* both are laid out one entry per line, the inner entries at indent 4
MapLayoutWitness ==
    /\ Formatted
    /\ value.t = "dict"
    /\ Len(value.entries) = 1
    /\ value.entries[1][2].t = "dict"
    /\ Len(value.entries[1][2].entries) = 2
    /\ TotalLength(Entries(value.entries[1][2], 2)) = 60
    /\ text = <<"{", NL>> \o Spaces(2) \o <<SQ, "k", SQ, ":", SP>>
                  \o OnePerLine("{", Entries(value.entries[1][2], 2), "}", 2)
                  \o <<",", NL, "}">>

(***************************************************************************)
(* validate_level: declared against measured dimensions.                   *)
(***************************************************************************)
\* the number of violations of that kind recorded for the field
Count(field, kind) ==
    Cardinality({n \in 1..Len(errors) : errors[n].id = field /\ errors[n].kind = kind})

\* the measured dimensions: the number of rows, the length of the longest row
MeasuredRows == Len(maze)
MeasuredCols ==
    IF maze = <<>> THEN 0
    ELSE LET longest == CHOOSE r \in 1..Len(maze) :
                            \A other \in 1..Len(maze) : Len(maze[other]) <= Len(maze[r])
         IN Len(maze[longest])

\* spy j of the metadata was checked against the measured dimensions
SpyChecked(j) ==
    LET spy == meta["spies"][j]
    IN IF spy.spawn = Missing
       THEN \E n \in 1..Len(errors) :
               errors[n].id = spy.id /\ errors[n].kind = "missing spawn position"
       ELSE /\ (spy.spawn[1] < 1 \/ spy.spawn[1] > MeasuredRows)
                <=> \E n \in 1..Len(errors) :
                       errors[n].id = spy.id /\ errors[n].kind = "spawn line out of bounds"
            /\ (spy.spawn[1] >= 1 /\ spy.spawn[1] <= MeasuredRows
                   /\ (spy.spawn[2] < 1 \/ spy.spawn[2] > MeasuredCols))
                <=> \E n \in 1..Len(errors) :
                       errors[n].id = spy.id /\ errors[n].kind = "spawn col out of bounds"

\* the metadata declares dimensions and one of them is not the measured one
DimensionsMismatch ==
    /\ LevelChecked
    /\ "maze" \in DOMAIN meta
    /\ {"lines", "cols"} \subseteq DOMAIN meta["maze"]
    /\ (meta["maze"]["lines"] # MeasuredRows \/ meta["maze"]["cols"] # MeasuredCols)

\* C26: when the declared lines or cols differ from the measured rows or
\* longest row, validate_level records one mismatch violation for each
\* dimension that differs, and still checks start_cursor, exit_cursor and,
\* by its return, every spy, all against the measured dimensions
MismatchRecordedChecksGoOn ==
    DimensionsMismatch =>
        /\ Count("maze", "lines mismatch")
               = (IF meta["maze"]["lines"] # MeasuredRows THEN 1 ELSE 0)
        /\ Count("maze", "cols mismatch")
               = (IF meta["maze"]["cols"] # MeasuredCols THEN 1 ELSE 0)
        /\ \A name \in {"start_cursor", "exit_cursor"} :
               /\ CursorReported(name) <=> CursorAtFault(name)
               /\ (name \in DOMAIN meta /\ meta[name][1] > MeasuredRows)
                      => Count(name, "line out of bounds") = 1
        /\ (lv_pc = "done" /\ "spies" \in DOMAIN meta)
               => \A j \in 1..Len(meta["spies"]) : SpyChecked(j)

\* C26 witness: 3 x 3 declared for the 2 x 2 grid; validate_level returned both
\* mismatches, start_cursor [3, 3] out of the measured bounds, and the
\* violations of the spy on the wall
MismatchWitness ==
    /\ lv_pc = "done"
    /\ DimensionsMismatch
    /\ meta["maze"] = [lines |-> 3, cols |-> 3]
    /\ Len(maze) = 2
    /\ Count("maze", "lines mismatch") = 1
    /\ Count("maze", "cols mismatch") = 1
    /\ "start_cursor" \in DOMAIN meta
    /\ meta["start_cursor"] = <<3, 3>>
    /\ Count("start_cursor", "line out of bounds") = 1
    /\ "spies" \in DOMAIN meta
    /\ Len(meta["spies"]) = 2
    /\ Count("spy2", "spawn is on a wall") = 1

(***************************************************************************)
(* The two walkers on the same grid, spawn and route.                      *)
(***************************************************************************)
BothReturned == b_pc = "done" /\ v_pc = "done"

\* C27: on the same rectangular grid, spawn and route, validate_route returns
\* no violation exactly when validate_spy returns none
WalkersAgree == BothReturned => (b_errors = <<>> <=> v_errors = <<>>)

\* C27, the part the code keeps: they agree on every route that is not empty
WalkersAgreeOnNonEmptyRoutes ==
    (BothReturned /\ route # <<>>) => (b_errors = <<>> <=> v_errors = <<>>)

\* every direction of the route is one of the four
KnownDirections == \A n \in 1..Len(route) : route[n].dir \in Directions

\* C28: on a route whose directions are all among up, down, left, right either
\* walker comes to its return, whatever the grid and the spawn, also when the
\* end of a vector is not on the ray from the position in its direction
WalkTerminates == KnownDirections ~> BothReturned

\* C28 witness: from spawn [1, 1] the vector "up" to [2, 2] never meets its
\* end; both walkers returned with the step out of the grid as a violation
WalkTerminatesWitness ==
    /\ BothReturned
    /\ spawn = <<1, 1>>
    /\ Len(route) = 1
    /\ route[1] = Vec(<<2, 2>>, "up")
    /\ HasKind(b_errors, {"Route goes out of bounds"})
    /\ HasKind(v_errors, {"route goes out of bounds"})

(***************************************************************************)
(* What a walk leaves alone.                                               *)
(***************************************************************************)
\* the violations recorded under the id, without the id
ViolationsOf(id) ==
    LET Of(e) == e.id = id
        own == SelectSeq(all_errors, Of)
    IN [n \in 1..Len(own) |-> <<own[n].kind, own[n].at>>]

\* a step that leaves the grid, the spawn and the route as they are
InputKept == maze' = maze /\ spawn' = spawn /\ route' = route

\* C29: while validate_route walks, the grid, the spawn and the route stay as
\* they are, so the spawn and route generate_spies_vim stores and emits for a
\* spy are the ones get_spawn_pos and generate_patrol_route returned; two
\* spies with the same spawn and route get the same violations
WalkLeavesInputUnchanged ==
    /\ [][(b_pc \in {"start", "walk"}) => InputKept]_vars
    /\ [](\A n \in 1..Len(spies_data) :
             /\ spies_data[n].spawn = get_spawn_pos(spies_config[n])
             /\ spies_data[n].route = generate_patrol_route(spies_config[n]))
    /\ []((g_pc = "done" /\ Len(spies_data) = 2
             /\ spies_data[1].spawn = spies_data[2].spawn
             /\ spies_data[1].route = spies_data[2].route)
           => ViolationsOf(spies_config[1].id) = ViolationsOf(spies_config[2].id))

\* C29 witness: two spies with the same spawn and route, off the route; each
\* walk moved its position away from the spawn and recorded violations, and
\* both spies are emitted with that spawn
WalkLeavesInputUnchangedWitness ==
    /\ g_pc = "done"
    /\ Len(spies_data) = 2
    /\ spies_data[1].spawn = <<3, 3>>
    /\ spies_data[2].spawn = <<3, 3>>
    /\ spies_data[1].route = spies_data[2].route
    /\ b_pos # <<2, 2>>
    /\ ViolationsOf("spy1") # <<>>
    /\ ViolationsOf("spy1") = ViolationsOf("spy2")

\* C29 for validate_spy: its steps leave the grid, the spawn and the route alone
SpyWalkLeavesInputUnchanged ==
    [][(v_pc \in {"start", "walk"}) => InputKept]_vars

(***************************************************************************)
(* generate_maze and the order of the specs.                               *)
(***************************************************************************)
\* the lists with the elements of seq in every order
Reorderings(seq) ==
    {[n \in 1..Len(seq) |-> seq[order[n]]] :
        order \in {f \in [1..Len(seq) -> 1..Len(seq)] :
                      \A a, b \in 1..Len(seq) : a # b => f[a] # f[b]}}

\* C30: with dimensions and exit fixed, the grid generate_maze returns is the
\* same for every order of the wall specs among themselves and every order
\* of the opening specs among themselves
SpecOrderIrrelevant ==
    m_pc = "done" =>
        \A walls \in Reorderings(config.walls) :
            \A openings \in Reorderings(config.openings) :
                generate_maze([config EXCEPT !.walls = walls, !.openings = openings]) = maze

\* C30 witness: two different wall specs over the inner cell and two different
\* opening specs over it, one of them across the border; a grid was returned
SpecOrderWitness ==
    /\ m_pc = "done"
    /\ config.walls = <<[type |-> "rect", rect |-> <<2, 2, 1, 1>>],
                        [type |-> "hline", line |-> <<2, 0, MaxCols + 1>>]>>
    /\ config.openings = <<[type |-> "hline", line |-> <<2, 1, MaxCols>>],
                           [type |-> "point", pos |-> <<2, 2>>]>>
    /\ Len(maze) = MaxRows
    /\ maze[2][1] = FLOOR_CHAR

====
